---------------------------- MODULE Spec2Model ----------------------------
(***************************************************************************)
(* Model of the orchestrator control plane, src/orchestrator/api/main.py:  *)
(* the in-memory job store _JOBS, the claim engine, the request handlers   *)
(* and the simulated background runner.                                    *)
(*                                                                         *)
(* Scheduling.  The application is one asyncio event loop.  A coroutine    *)
(* gives up the loop only where it suspends.  _JOBS_LOCK is never held     *)
(* across a suspension (no body of "async with _JOBS_LOCK" awaits), so it  *)
(* is never contended and acquiring it never suspends.  A request handler  *)
(* therefore runs from its first to its last statement without another     *)
(* task in between; the only suspension of the application code is         *)
(* asyncio.sleep(0.6) in _simulate_job_run (line 250).  worker_claim does  *)
(* two store accesses (lines 416 and 423-431); they are two steps of the   *)
(* model, with no other step of the model between them, so that the        *)
(* CLAIMED record it writes in between is a state of the model.            *)
(*                                                                         *)
(* Representation.  Python None of an optional field is the empty          *)
(* sequence, a set value x is <<x>>.  Text that the code compares or       *)
(* searches (timestamps, ref) is a sequence of character codes/characters. *)
(* The "[timestamp] " prefix of a log line is left out of a log entry.     *)
(*                                                                         *)
(* The hybrid hand-off, src/orchestrator/worker/worker.py and              *)
(* src/local-agent/agent.py: a worker in hybrid mode writes a command file *)
(* into the queue directory and polls the results directory; agent         *)
(* processes poll the queue directory, claim a command file by renaming    *)
(* it, run it and publish a result file.  The processes share nothing but  *)
(* the two directories; a step of the model is one system call (or one     *)
(* HTTP request of the worker, which the application serves atomically).   *)
(* A worker without hybrid directories runs the command as a child process *)
(* of its own and streams its output.                                      *)
(***************************************************************************)
EXTENDS Integers, Sequences, FiniteSets, TLC

(* ---------------------------- bounds ----------------------------------- *)
\* number of submissions explored
MaxJobs == 1
\* number of submissions the queue specification starts from
QueueLen == 3
\* last value of the wall clock (in clock ticks)
MaxClock == 1
\* log entries written by append and complete calls, over all jobs
MaxReports == 2
\* entries of the steps list of _simulate_job_run that the model runs (the
\* list has six; every entry is handled by the same loop body)
NumSteps == 2
\* number of submissions of the specification of several submissions
MaxSubmits == 2
\* last value of the hybrid worker's time.time() (in seconds)
MaxTime == 8
\* clock ticks per second (the fraction of a second printed by isoformat)
TicksPerSec == 2

(* ---------------------------- input sets ------------------------------- *)
\* worker_id is any str of the request body (ClaimRequest, line 109)
WorkerIds == {"", "A"}
\* runtime_pref of a ClaimRequest (line 110); <<>> is None
RuntimePrefs == {<<>>, <<"">>, <<"container">>, <<"wasm">>}
\* ref (line 66, a sequence of characters) and runtime (line 67) of a JobRequest
JobRequests ==
    { [ref |-> <<"m">>, runtime |-> "container"],
      [ref |-> <<"F", "a", "i", "l">>, runtime |-> "wasm"] }
\* the X-Worker-Secret header of a request; <<>> is a missing header
Secrets == {<<>>, <<"s3">>, <<"bad">>}
\* the lines of an AppendLogRequest (line 126)
LineLists == {<<"l1", "l2">>}
\* bodies of a CompleteRequest (lines 129-134); result <<>> is None
CompleteRequests ==
    { [success |-> TRUE,  exit_code |-> 0, message |-> <<"">>,     result |-> <<>>],
      [success |-> FALSE, exit_code |-> 1, message |-> <<"boom">>, result |-> <<"p">>] }

(* ---------------------------- values ----------------------------------- *)
None == <<>>
Some(x) == <<x>>

\* class JobState
PENDING == "PENDING"
CLAIMED == "CLAIMED"
RUNNING == "RUNNING"
SUCCESS == "SUCCESS"
FAILED == "FAILED"
CANCELED == "CANCELED"
JobState == {PENDING, CLAIMED, RUNNING, SUCCESS, FAILED, CANCELED}
Terminal == {SUCCESS, FAILED, CANCELED}

VARIABLES
    WORKER_SECRET,  \* the configured worker secret, "" when unset
    JOBS,           \* _JOBS in insertion order: a sequence of job records
    sim,            \* per job, the position of its _simulate_job_run task
    clock,          \* the wall clock read by _now()
    claiming,       \* the handler (worker_claim) between two store accesses
    returned,       \* per job, how many claim responses carried it
    resp            \* the response of the last finished request

\* the hybrid hand-off between worker.py and local-agent/agent.py
VARIABLES
    queue_dir,      \* the hybrid-queue directory: file name -> contents
    results_dir,    \* the hybrid-results directory: job id -> published result
    agents,         \* per agent process, its position in run_loop and its locals
    hworker,        \* the hybrid worker: its position in run_command_and_stream
    config,         \* the settings the agents and the worker were started with
    ran,            \* history: the commands the agents have executed
    published       \* history: the result files the agents have written

hvars == <<queue_dir, results_dir, agents, hworker, config, ran, published>>

vars == <<WORKER_SECRET, JOBS, sim, clock, claiming, returned, resp, hvars>>

(* ---------------------------- text ------------------------------------- *)
\* _now().isoformat(): seconds, then ".fraction" only when the fraction is
\* not zero, then the UTC offset.  Codes: "0" is 48, "." is 46, "+" is 43.
Iso(t) ==
    LET s == t \div TicksPerSec
        u == t % TicksPerSec
    IN  <<48 + s>> \o (IF u = 0 THEN <<>> ELSE <<46, 48 + u>>) \o <<43>>

_now == Iso(clock)

\* datetime.fromisoformat on the text Iso writes: the time in clock ticks
fromisoformat(text) ==
    (text[1] - 48) * TicksPerSec + (IF text[2] = 46 THEN text[3] - 48 ELSE 0)

\* Python's str "<": lexicographic on the character codes
RECURSIVE StrLess(_, _)
StrLess(a, b) ==
    IF b = <<>> THEN FALSE
    ELSE IF a = <<>> THEN TRUE
    ELSE IF Head(a) # Head(b) THEN Head(a) < Head(b)
    ELSE StrLess(Tail(a), Tail(b))

\* str.lower() on the characters refs are made of
Lower(s) ==
    [i \in 1..Len(s) |->
        CASE s[i] = "F" -> "f"
          [] s[i] = "A" -> "a"
          [] s[i] = "I" -> "i"
          [] s[i] = "L" -> "l"
          [] OTHER -> s[i]]

\* sub in s
Contains(sub, s) ==
    \E i \in 0..(Len(s) - Len(sub)) : SubSeq(s, i + 1, i + Len(sub)) = sub

\* Python truthiness of an optional str: None and "" are falsy
Truthy(opt) == opt # None /\ opt[1] # ""

(* ---------------------------- store ------------------------------------ *)
JobIds == 1..Len(JOBS)

\* a log entry: <<kind, worker, text, number>>
Entry(kind, who, text, n) == <<kind, who, text, n>>

\* a validation that lets a request without the header through
_validate_unless_missing(provided) ==
    IF WORKER_SECRET = "" THEN TRUE
    ELSE provided = None \/ provided[1] = WORKER_SECRET

_validate_worker_secret(provided) ==
    IF WORKER_SECRET = "" THEN TRUE
    ELSE (IF Truthy(provided) THEN provided[1] ELSE "") = WORKER_SECRET

\* a server that never waits for the handler in progress
BusyNever == FALSE

\* no request is served while a handler is between two of its store
\* accesses: an uncontended "async with _JOBS_LOCK" does not suspend, so a
\* handler runs from its first store access to its return without yielding
Busy == claiming # None

\* the response to a request: the endpoint, the status code, the body (the
\* detail of an HTTPException, else the name of what is returned) and the
\* job_id in the body (0 when none)
Response(op, code, body, job) == [op |-> op, code |-> code, body |-> body, job |-> job]

\* no agent and no hybrid worker was started
HybridOff ==
    /\ queue_dir = <<>>
    /\ results_dir = <<>>
    /\ agents = <<>>
    /\ hworker = [pc |-> "off"]
    /\ config = [secret |-> None, hybrid_secret |-> None, dry_run |-> FALSE]
    /\ ran = <<>>
    /\ published = <<>>

Init ==
    /\ HybridOff
    /\ WORKER_SECRET = "s3"
    /\ JOBS = <<>>
    /\ sim = <<>>
    /\ clock = 0
    /\ claiming = None
    /\ returned = <<>>
    /\ resp = Response("", 0, "None", 0)

\* time passes
Tick ==
    /\ clock < MaxClock
    /\ clock' = clock + 1
    /\ UNCHANGED <<hvars, WORKER_SECRET, JOBS, sim, claiming, returned, resp>>

\* a submission that files every record under the same job id
job_data_same_id(job_id, req, now) ==
    [job_id |-> 1,
     created_at |-> now,
     state |-> PENDING,
     ref |-> req.ref,
     runtime |-> req.runtime,
     logs |-> <<>>,
     result |-> None,
     worker_id |-> None,
     claimed_at |-> None,
     started_at |-> None,
     finished_at |-> None]

\* lines 288-305: the record of a new job
job_data(job_id, req, now) ==
    [job_id |-> job_id,
     created_at |-> now,
     state |-> PENDING,
     ref |-> req.ref,
     runtime |-> req.runtime,
     logs |-> <<>>,
     result |-> None,
     worker_id |-> None,
     claimed_at |-> None,
     started_at |-> None,
     finished_at |-> None]

\* POST /jobs; uuid4 gives a job id that no record has yet
enqueue_job(req) ==
    /\ ~Busy
    /\ Len(JOBS) < MaxJobs
    /\ LET job_id == Len(JOBS) + 1
       IN  /\ JOBS' = Append(JOBS, job_data(job_id, req, _now))
           /\ sim' = Append(sim, 0)
           /\ returned' = Append(returned, 0)
           /\ resp' = Response("enqueue", 201, "JobSummary", job_id)
    /\ UNCHANGED <<hvars, WORKER_SECRET, clock, claiming>>

\* JOBS with record j replaced: job[...] = ... followed by _save_job / _JOBS[job_id] = job
Put(j, rec) == [JOBS EXCEPT ![j] = rec]

\* how many log entries written by append and complete calls the store holds
Reported ==
    Cardinality({p \in UNION {{<<j, i>> : i \in 1..Len(JOBS[j].logs)} : j \in JobIds} :
                    JOBS[p[1]].logs[p[2]][1] \in {"line", "COMPLETE"}})

\* the model stops accepting worker reports at MaxReports entries
HasRoom(n) == Reported + n <= MaxReports

(* ---------------------------- claim engine ----------------------------- *)
\* list.sort(key=created_at) is stable: x goes after every element whose
\* key is not greater than its own
RECURSIVE InsertByCreated(_, _)
InsertByCreated(sorted, x) ==
    IF sorted = <<>> THEN <<x>>
    ELSE IF StrLess(JOBS[x].created_at, JOBS[Head(sorted)].created_at)
         THEN <<x>> \o sorted
         ELSE <<Head(sorted)>> \o InsertByCreated(Tail(sorted), x)

RECURSIVE SortByCreated(_)
SortByCreated(ids) ==
    IF ids = <<>> THEN <<>>
    ELSE InsertByCreated(SortByCreated(SubSeq(ids, 1, Len(ids) - 1)), ids[Len(ids)])

\* the ids of _JOBS.items(), in insertion order
Items == [i \in 1..Len(JOBS) |-> i]

\* a claim engine that also takes jobs a worker already has
IsPendingOrTaken(j) == JOBS[j].state \in {PENDING, CLAIMED, RUNNING}

IsPending(j) == JOBS[j].state = PENDING

\* lines 183-189: the PENDING jobs, filtered by a truthy runtime_pref
PendingFor(runtime_pref) ==
    LET pending == SelectSeq(Items, IsPending)
        Matches(j) == JOBS[j].runtime = runtime_pref[1]
    IN  IF Truthy(runtime_pref) THEN SelectSeq(pending, Matches) ELSE pending

\* a claim engine that takes the first pending job of the store, unsorted
OldestUnsorted(runtime_pref) ==
    LET pending == PendingFor(runtime_pref)
    IN  IF pending = <<>> THEN 0 ELSE Head(pending)

\* a claim engine that falls back on the first job of the store
OldestOrFirst(runtime_pref) ==
    LET pending == PendingFor(runtime_pref)
    IN  IF pending = <<>> THEN (IF JOBS = <<>> THEN 0 ELSE 1)
        ELSE Head(SortByCreated(pending))

\* lines 190-194: the job id the claim takes, 0 for None
Oldest(runtime_pref) ==
    LET pending == PendingFor(runtime_pref)
    IN  IF pending = <<>> THEN 0 ELSE Head(SortByCreated(pending))

\* lines 195-199
ClaimedRecord(job, worker_id) ==
    [job EXCEPT !.state = CLAIMED,
                !.worker_id = Some(worker_id),
                !.claimed_at = _now,
                !.logs = Append(@, Entry("CLAIMED by worker", worker_id, "", 0))]

\* POST /workers/claim, up to the return of _atomically_claim_oldest
worker_claim(worker_id, runtime_pref, secret) ==
    /\ ~Busy
    /\ IF ~_validate_worker_secret(secret)
       THEN /\ resp' = Response("claim", 403, "invalid worker secret", 0)
            /\ UNCHANGED <<JOBS, claiming>>
       ELSE LET job_id == Oldest(runtime_pref)
            IN  IF job_id = 0
                THEN /\ resp' = Response("claim", 200, "None", 0)
                     /\ UNCHANGED <<JOBS, claiming>>
                ELSE /\ JOBS' = Put(job_id, ClaimedRecord(JOBS[job_id], worker_id))
                     /\ claiming' = Some([job_id |-> job_id, worker_id |-> worker_id])
                     /\ UNCHANGED resp
    /\ UNCHANGED <<hvars, WORKER_SECRET, sim, clock, returned>>

\* a start that only logs and leaves the job CLAIMED
StartedRecordStillClaimed(job, worker_id) ==
    [job EXCEPT !.logs = Append(@, Entry("state=RUNNING: worker started", worker_id, "", 0))]

\* lines 423-430
StartedRecord(job, worker_id) ==
    [job EXCEPT !.state = RUNNING,
                !.started_at = IF @ = None THEN _now ELSE @,
                !.logs = Append(@, Entry("state=RUNNING: worker started", worker_id, "", 0))]

\* POST /workers/claim, lines 423-443: the second store access and the response
worker_claim_start ==
    /\ Busy
    /\ LET job_id == claiming[1].job_id
           worker_id == claiming[1].worker_id
       IN  /\ JOBS' = Put(job_id, StartedRecord(JOBS[job_id], worker_id))
           /\ returned' = [returned EXCEPT ![job_id] = @ + 1]
           /\ resp' = Response("claim", 200, "ClaimResponse", job_id)
    /\ claiming' = None
    /\ UNCHANGED <<hvars, WORKER_SECRET, sim, clock>>

(* ---------------------------- client endpoints ------------------------- *)
\* a cancel without the check for a terminal state
CanceledRecordAlways(job) ==
    [job EXCEPT !.state = CANCELED,
                !.logs = Append(@, Entry("CANCELED by request", "", "", 0)),
                !.finished_at = _now]

\* lines 378-383
CanceledRecord(job) ==
    IF job.state \in Terminal THEN job
    ELSE [job EXCEPT !.state = CANCELED,
                     !.logs = Append(@, Entry("CANCELED by request", "", "", 0)),
                     !.finished_at = _now]

\* POST /jobs/{job_id}/cancel
cancel_job(job_id) ==
    /\ ~Busy
    /\ IF job_id \notin JobIds
       THEN /\ resp' = Response("cancel", 404, "job not found", 0)
            /\ UNCHANGED JOBS
       ELSE /\ JOBS' = Put(job_id, CanceledRecord(JOBS[job_id]))
            /\ resp' = Response("cancel", 204, "None", 0)
    /\ UNCHANGED <<hvars, WORKER_SECRET, sim, clock, claiming, returned>>

(* ---------------------------- worker endpoints ------------------------- *)
\* a check that lets only the assigned worker through, so nobody on a job
\* without one
MismatchUnlessOwner(job, worker_id) ==
    job.worker_id # Some(worker_id)

\* a check that also turns away every request for a job that no worker has
MismatchOrUnclaimed(job, worker_id) ==
    ~Truthy(job.worker_id) \/ worker_id # job.worker_id[1]

\* lines 466 and 497: the job has a truthy worker_id and the request's differs
Mismatch(job, worker_id) ==
    Truthy(job.worker_id) /\ worker_id # job.worker_id[1]

\* an append that puts the new lines in front of the log
AppendLinesInFront(logs, worker_id, lines) ==
    [i \in 1..Len(lines) |-> Entry("line", worker_id, lines[i], 0)] \o logs

\* lines 471-473
RECURSIVE AppendLines(_, _, _)
AppendLines(logs, worker_id, lines) ==
    IF lines = <<>> THEN logs
    ELSE AppendLines(Append(logs, Entry("line", worker_id, Head(lines), 0)),
                     worker_id, Tail(lines))

\* an append that records the appending worker as the worker of the job
append_job_logs_recording(job_id, worker_id, lines, secret) ==
    /\ ~Busy
    /\ IF ~_validate_worker_secret(secret)
       THEN /\ resp' = Response("append", 403, "invalid worker secret", 0)
            /\ UNCHANGED JOBS
       ELSE IF job_id \notin JobIds
       THEN /\ resp' = Response("append", 404, "job not found", 0)
            /\ UNCHANGED JOBS
       ELSE IF Mismatch(JOBS[job_id], worker_id)
       THEN /\ resp' = Response("append", 403, "worker_id mismatch for job", 0)
            /\ UNCHANGED JOBS
       ELSE /\ HasRoom(Len(lines))
            /\ JOBS' = Put(job_id, [JOBS[job_id] EXCEPT
                                      !.logs = AppendLines(@, worker_id, lines),
                                      !.worker_id = Some(worker_id)])
            /\ resp' = Response("append", 204, "None", 0)
    /\ UNCHANGED <<hvars, WORKER_SECRET, sim, clock, claiming, returned>>

\* POST /jobs/{job_id}/append
append_job_logs(job_id, worker_id, lines, secret) ==
    /\ ~Busy
    /\ IF ~_validate_worker_secret(secret)
       THEN /\ resp' = Response("append", 403, "invalid worker secret", 0)
            /\ UNCHANGED JOBS
       ELSE IF job_id \notin JobIds
       THEN /\ resp' = Response("append", 404, "job not found", 0)
            /\ UNCHANGED JOBS
       ELSE IF Mismatch(JOBS[job_id], worker_id)
       THEN /\ resp' = Response("append", 403, "worker_id mismatch for job", 0)
            /\ UNCHANGED JOBS
       ELSE /\ HasRoom(Len(lines))
            /\ JOBS' = Put(job_id, [JOBS[job_id] EXCEPT
                                      !.logs = AppendLines(@, worker_id, lines)])
            /\ resp' = Response("append", 204, "None", 0)
    /\ UNCHANGED <<hvars, WORKER_SECRET, sim, clock, claiming, returned>>

\* a completion that records the reporting worker as the job's worker
CompletedRecordTakesOver(job, worker_id, req) ==
    [job EXCEPT !.state = IF req.success THEN SUCCESS ELSE FAILED,
                !.finished_at = _now,
                !.worker_id = Some(worker_id)]

\* lines 500-517
CompletedRecord(job, worker_id, req) ==
    [job EXCEPT !.state = IF req.success THEN SUCCESS ELSE FAILED,
                !.finished_at = _now,
                !.result = Some([exit_code |-> req.exit_code,
                                 message |-> IF Truthy(req.message) THEN req.message[1]
                                             ELSE IF req.success THEN "success"
                                             ELSE "failed",
                                 payload |-> IF Truthy(req.result) THEN req.result
                                             ELSE None]),
                !.logs = Append(@, Entry("COMPLETE", worker_id,
                                         IF req.success THEN "True" ELSE "False",
                                         req.exit_code))]

\* POST /jobs/{job_id}/complete
complete_job(job_id, worker_id, req, secret) ==
    /\ ~Busy
    /\ IF ~_validate_worker_secret(secret)
       THEN /\ resp' = Response("complete", 403, "invalid worker secret", 0)
            /\ UNCHANGED JOBS
       ELSE IF job_id \notin JobIds
       THEN /\ resp' = Response("complete", 404, "job not found", 0)
            /\ UNCHANGED JOBS
       ELSE IF Mismatch(JOBS[job_id], worker_id)
       THEN /\ resp' = Response("complete", 403, "worker_id mismatch for job", 0)
            /\ UNCHANGED JOBS
       ELSE /\ HasRoom(1)
            /\ JOBS' = Put(job_id, CompletedRecord(JOBS[job_id], worker_id, req))
            /\ resp' = Response("complete", 200, "job_id, state", job_id)
    /\ UNCHANGED <<hvars, WORKER_SECRET, sim, clock, claiming, returned>>

(* ---------------------------- simulated runner ------------------------- *)
SimDone == NumSteps + 1

\* lines 221-224
SimRunningRecord(job) ==
    [job EXCEPT !.state = RUNNING,
                !.started_at = _now,
                !.logs = Append(@, Entry("state=RUNNING: starting simulated run", "", "", 0))]

\* lines 239-249: one pass of the loop over steps, up to the sleep
SimStepRecord(job, k) ==
    IF job.state = CANCELED
    THEN [job EXCEPT !.logs = Append(@, Entry("state=CANCELED: run aborted", "", "", 0))]
    ELSE [job EXCEPT !.logs = Append(@, Entry("step", "", "", k))]

\* lines 252-266
SimFinalRecord(job) ==
    IF Contains(<<"f", "a", "i", "l">>, Lower(job.ref))
    THEN [job EXCEPT !.state = FAILED,
                     !.logs = Append(@, Entry("ERROR: simulated failure due to ref name", "", "", 0)),
                     !.finished_at = _now,
                     !.result = Some([exit_code |-> 1, message |-> "Simulated failure",
                                      payload |-> None])]
    ELSE [job EXCEPT !.state = SUCCESS,
                     !.logs = Append(@, Entry("SUCCESS: simulated run complete", "", "", 0)),
                     !.finished_at = _now,
                     !.result = Some([exit_code |-> 0, message |-> "Simulated success",
                                      payload |-> None])]

\* _simulate_job_run from its start to the first sleep (lines 210-250)
simulate_start(j) ==
    /\ ~Busy
    /\ j \in JobIds
    /\ sim[j] = 0
    /\ IF JOBS[j].state = CANCELED
       THEN /\ sim' = [sim EXCEPT ![j] = SimDone]
            /\ UNCHANGED JOBS
       ELSE /\ JOBS' = Put(j, SimStepRecord(SimRunningRecord(JOBS[j]), 1))
            /\ sim' = [sim EXCEPT ![j] = 1]
    /\ UNCHANGED <<hvars, WORKER_SECRET, clock, claiming, returned, resp>>

\* _simulate_job_run from one sleep to the next (lines 239-250)
simulate_step(j) ==
    /\ ~Busy
    /\ j \in JobIds
    /\ sim[j] \in 1..(NumSteps - 1)
    /\ JOBS' = Put(j, SimStepRecord(JOBS[j], sim[j] + 1))
    /\ sim' = [sim EXCEPT ![j] = IF JOBS[j].state = CANCELED THEN SimDone ELSE @ + 1]
    /\ UNCHANGED <<hvars, WORKER_SECRET, clock, claiming, returned, resp>>

\* _simulate_job_run after the last sleep (lines 252-269)
simulate_finish(j) ==
    /\ ~Busy
    /\ j \in JobIds
    /\ sim[j] = NumSteps
    /\ JOBS' = Put(j, SimFinalRecord(JOBS[j]))
    /\ sim' = [sim EXCEPT ![j] = SimDone]
    /\ UNCHANGED <<hvars, WORKER_SECRET, clock, claiming, returned, resp>>

AllJobIds == 1..MaxJobs

Next ==
    \/ Tick
    \/ \E req \in JobRequests : enqueue_job(req)
    \/ \E w \in WorkerIds, p \in RuntimePrefs, s \in Secrets : worker_claim(w, p, s)
    \/ worker_claim_start
    \/ \E j \in AllJobIds : cancel_job(j)
    \/ \E j \in AllJobIds, w \in WorkerIds, l \in LineLists, s \in Secrets :
          append_job_logs(j, w, l, s)
    \/ \E j \in AllJobIds, w \in WorkerIds, r \in CompleteRequests, s \in Secrets :
          complete_job(j, w, r, s)
    \/ \E j \in AllJobIds : simulate_start(j)
    \/ \E j \in AllJobIds : simulate_step(j)
    \/ \E j \in AllJobIds : simulate_finish(j)

Spec == Init /\ [][Next]_vars

(* ---------------------------- the claim queue -------------------------- *)
\* The store after up to QueueLen submissions and nothing else yet, and from
\* there the claim engine and cancel.  _now() reads the wall clock
\* (datetime.utcnow), which can be set back between two submissions, so the
\* created_at of the records need not follow their insertion order.
Submissions ==
    UNION {[1..n -> JobRequests \X (0..MaxClock)] : n \in 1..QueueLen}

InitQueue ==
    /\ HybridOff
    /\ WORKER_SECRET = "s3"
    /\ \E subs \in Submissions :
          /\ JOBS = [i \in 1..Len(subs) |-> job_data(i, subs[i][1], Iso(subs[i][2]))]
          /\ sim = [i \in 1..Len(subs) |-> 0]
          /\ returned = [i \in 1..Len(subs) |-> 0]
          /\ clock = subs[Len(subs)][2]
          /\ resp = Response("enqueue", 201, "JobSummary", Len(subs))
    /\ claiming = None

QueueIds == 1..QueueLen

NextQueue ==
    \/ \E w \in WorkerIds, p \in RuntimePrefs, s \in Secrets : worker_claim(w, p, s)
    \/ worker_claim_start
    \/ \E j \in QueueIds : cancel_job(j)

SpecQueue == InitQueue /\ [][NextQueue]_vars

(* ---------------------------- the worker secret ----------------------- *)
\* The application with WORKER_SECRET unset (line 39: None, or "" from an
\* empty environment variable) or set, and the endpoints that validate it.
InitSecret ==
    /\ HybridOff
    /\ WORKER_SECRET \in {"", "s3"}
    /\ JOBS = <<>>
    /\ sim = <<>>
    /\ clock = 0
    /\ claiming = None
    /\ returned = <<>>
    /\ resp = Response("", 0, "None", 0)

NextSecret ==
    \/ \E req \in JobRequests : enqueue_job(req)
    \/ \E w \in WorkerIds, p \in RuntimePrefs, s \in Secrets : worker_claim(w, p, s)
    \/ worker_claim_start
    \/ \E j \in AllJobIds, w \in WorkerIds, l \in LineLists, s \in Secrets :
          append_job_logs(j, w, l, s)
    \/ \E j \in AllJobIds, w \in WorkerIds, r \in CompleteRequests, s \in Secrets :
          complete_job(j, w, r, s)

SpecSecret == InitSecret /\ [][NextSecret]_vars

(* ---------------------------- lookups --------------------------------- *)
\* the cap of the logs of a JobDetails (line 362), the default of tail (line 390)
LogCap == 1000
DefaultTail == 200

\* the tail query parameter of GET /jobs/{job_id}/logs
Tails == {0, 1, DefaultTail}

\* job ids of requests, one of them never in the store
LookupIds == 1..(MaxJobs + 1)

\* Python's seq[n:]
SliceFrom(seq, n) ==
    LET len == Len(seq)
        start == IF n < 0 THEN (IF len + n < 0 THEN 0 ELSE len + n)
                 ELSE (IF n > len THEN len ELSE n)
    IN  SubSeq(seq, start + 1, len)

\* a lookup that answers with the first record of the store for an id it
\* does not know
_get_job_or_first(job_id) ==
    IF job_id \in JobIds THEN Some(JOBS[job_id])
    ELSE IF JOBS # <<>> THEN Some(JOBS[1]) ELSE None

\* lines 158-163; None stands for the KeyError
_get_job(job_id) ==
    IF job_id \in JobIds THEN Some(JOBS[job_id]) ELSE None

\* a response that carries data
DataResponse(op, code, body, job, data) ==
    [op |-> op, code |-> code, body |-> body, job |-> job, data |-> data]

\* lines 351-368
JobDetails(j) ==
    [j EXCEPT !.created_at = fromisoformat(@),
              !.logs = SliceFrom(@, 0 - LogCap)]

\* GET /jobs/{job_id}
get_job(job_id) ==
    /\ ~Busy
    /\ LET j == _get_job(job_id)
       IN  IF j = None
           THEN resp' = Response("get", 404, "job not found", 0)
           ELSE resp' = DataResponse("get", 200, "JobDetails", job_id, JobDetails(j[1]))
    /\ UNCHANGED <<hvars, WORKER_SECRET, JOBS, sim, clock, claiming, returned>>

\* GET /jobs/{job_id}/logs
get_job_logs(job_id, tail) ==
    /\ ~Busy
    /\ LET j == _get_job(job_id)
       IN  IF j = None
           THEN resp' = Response("logs", 404, "job not found", 0)
           ELSE resp' = DataResponse("logs", 200, "List[str]", job_id,
                                     SliceFrom(j[1].logs, 0 - tail))
    /\ UNCHANGED <<hvars, WORKER_SECRET, JOBS, sim, clock, claiming, returned>>

NextLookup ==
    \/ \E req \in JobRequests : enqueue_job(req)
    \/ \E w \in WorkerIds, p \in RuntimePrefs, s \in Secrets : worker_claim(w, p, s)
    \/ worker_claim_start
    \/ \E j \in LookupIds : get_job(j)
    \/ \E j \in LookupIds, tail \in Tails : get_job_logs(j, tail)
    \/ \E j \in LookupIds : cancel_job(j)
    \/ \E j \in LookupIds, w \in WorkerIds, l \in LineLists, s \in Secrets :
          append_job_logs(j, w, l, s)
    \/ \E j \in LookupIds, w \in WorkerIds, r \in CompleteRequests, s \in Secrets :
          complete_job(j, w, r, s)

SpecLookup == Init /\ [][NextLookup]_vars

(* ---------------------------- the store lock --------------------------- *)
\* cancel_job and complete_job field write by field write.  claiming holds
\* the handler in progress: its operation, its arguments, its position (pc),
\* whether it holds _JOBS_LOCK, and the values its field writes assign.

\* seq reversed
Reverse(seq) == [i \in 1..Len(seq) |-> seq[Len(seq) + 1 - i]]

\* lines 329-341: the fields of a JobSummary
JobSummary(j) ==
    [job_id |-> j.job_id, created_at |-> fromisoformat(j.created_at),
     state |-> j.state, ref |-> j.ref, runtime |-> j.runtime]

\* lines 165-167 and 326-342: GET /jobs copies the list of records under the
\* lock and summarises them, newest first (a stable sort with reverse=True)
list_jobs ==
    /\ ~Busy
    /\ LET items == Reverse(SortByCreated(Reverse(Items)))
       IN  resp' = DataResponse("list", 200, "List[JobSummary]", 0,
                                [i \in DOMAIN items |-> JobSummary(JOBS[items[i]])])
    /\ UNCHANGED <<hvars, WORKER_SECRET, JOBS, sim, clock, claiming, returned>>

\* the order of the field writes: lines 381-383 and lines 500-517
FieldWrites(op) ==
    IF op = "cancel" THEN <<"state", "logs", "finished_at">>
    ELSE <<"state", "finished_at", "result", "logs">>

\* The store holds a job that a worker has claimed and a newer PENDING job.
InitStore ==
    /\ HybridOff
    /\ WORKER_SECRET = "s3"
    /\ clock = 1
    /\ \E req \in JobRequests :
          JOBS = <<StartedRecord(ClaimedRecord(job_data(1, req, Iso(0)), "A"), "A"),
                   job_data(2, req, Iso(1))>>
    /\ sim = <<0, 0>>
    /\ claiming = None
    /\ returned = <<1, 0>>
    /\ resp = Response("claim", 200, "ClaimResponse", 1)

\* what a step of a handler leaves alone
StFrame == UNCHANGED <<hvars, WORKER_SECRET, sim, clock, returned>>

\* lines 371-373 and 478-489: a cancel or a complete request (with a valid
\* secret) is taken up
st_begin(op, job_id, worker_id, req) ==
    /\ claiming = None
    /\ op = "complete" => HasRoom(1)
    /\ claiming' = Some([op |-> op, job_id |-> job_id, worker_id |-> worker_id,
                         req |-> req, pc |-> "get", lock |-> FALSE, n |-> 0,
                         values |-> None])
    /\ UNCHANGED <<JOBS, resp>>
    /\ StFrame

\* lines 154, 159: async with _JOBS_LOCK is entered
st_lock ==
    /\ claiming # None
    /\ claiming[1].pc \in {"get", "save"}
    /\ ~claiming[1].lock
    /\ claiming' = Some([claiming[1] EXCEPT !.lock = TRUE])
    /\ UNCHANGED <<JOBS, resp>>
    /\ StFrame

\* lines 158-163, 374-379 and 491-498: _get_job returns the record of the
\* store itself and leaves the lock; the handler answers 404 for an unknown
\* id, cancel returns for a terminal job, complete answers 403 for another
\* worker's job; else the field writes follow
st_get ==
    /\ claiming # None
    /\ claiming[1].pc = "get"
    /\ claiming[1].lock
    /\ LET f == claiming[1]
           j == _get_job(f.job_id)
       IN  IF j = None
           THEN /\ resp' = Response(f.op, 404, "job not found", 0)
                /\ claiming' = None
           ELSE IF f.op = "cancel" /\ j[1].state \in Terminal
           THEN /\ resp' = Response("cancel", 204, "None", 0)
                /\ claiming' = None
           ELSE IF f.op = "complete" /\ Mismatch(j[1], f.worker_id)
           THEN /\ resp' = Response("complete", 403, "worker_id mismatch for job", 0)
                /\ claiming' = None
           ELSE /\ claiming' = Some([f EXCEPT !.lock = FALSE, !.pc = "write", !.n = 1,
                                              !.values =
                                                  IF f.op = "cancel" THEN CanceledRecord(j[1])
                                                  ELSE CompletedRecord(j[1], f.worker_id,
                                                                       f.req[1])])
                /\ UNCHANGED resp
    /\ UNCHANGED JOBS
    /\ StFrame

\* lines 381-383 and 500-517: the next field of the record is written
st_write ==
    /\ claiming # None
    /\ claiming[1].pc = "write"
    /\ LET f == claiming[1]
           field == FieldWrites(f.op)[f.n]
       IN  /\ JOBS' = Put(f.job_id, [JOBS[f.job_id] EXCEPT ![field] = f.values[field]])
           /\ claiming' = Some(IF f.n = Len(FieldWrites(f.op))
                               THEN [f EXCEPT !.pc = "save"]
                               ELSE [f EXCEPT !.n = @ + 1])
    /\ UNCHANGED resp
    /\ StFrame

\* lines 153-155, 384-386 and 518-520: _save_job stores the record, which
\* the store already holds, under the lock, and the handler returns
st_save ==
    /\ claiming # None
    /\ claiming[1].pc = "save"
    /\ claiming[1].lock
    /\ resp' = IF claiming[1].op = "cancel" THEN Response("cancel", 204, "None", 0)
               ELSE Response("complete", 200, "job_id, state", claiming[1].job_id)
    /\ claiming' = None
    /\ UNCHANGED JOBS
    /\ StFrame

\* job ids of requests, one of them never in the store
StoreIds == {1, 2, 3}

NextStore ==
    \/ \E j \in StoreIds : st_begin("cancel", j, "", None)
    \/ \E j \in StoreIds, w \in WorkerIds \cup {"B"}, r \in CompleteRequests :
          st_begin("complete", j, w, Some(r))
    \/ st_lock
    \/ st_get
    \/ st_write
    \/ st_save
    \/ \E j \in StoreIds : get_job(j)
    \/ list_jobs

SpecStore == InitStore /\ [][NextStore]_vars

(* ---------------------------- several submissions --------------------- *)
\* POST /jobs while the store holds fewer than MaxSubmits records
enqueue_next(req) ==
    /\ ~Busy
    /\ Len(JOBS) < MaxSubmits
    /\ LET job_id == Len(JOBS) + 1
       IN  /\ JOBS' = Append(JOBS, job_data(job_id, req, _now))
           /\ sim' = Append(sim, 0)
           /\ returned' = Append(returned, 0)
           /\ resp' = Response("enqueue", 201, "JobSummary", job_id)
    /\ UNCHANGED <<hvars, WORKER_SECRET, clock, claiming>>

SubmitIds == 1..MaxSubmits

NextSubmit ==
    \/ \E req \in JobRequests : enqueue_next(req)
    \/ \E w \in WorkerIds, p \in RuntimePrefs, s \in Secrets : worker_claim(w, p, s)
    \/ worker_claim_start
    \/ \E j \in SubmitIds : cancel_job(j)
    \/ \E j \in SubmitIds : simulate_start(j)

SpecSubmit == Init /\ [][NextSubmit]_vars

(* ---------------------------- hybrid: command files -------------------- *)
\* A file is its sequence of lines.  A line is of one kind: "blank"
\* (strip() is empty), "magic" (starts with MAGIC_HEADER), "header" ("key:
\* value", key upper-cased and both stripped) or "text" (command words as
\* shlex.join writes them; open says that a quotation is not closed).
MAGIC_HEADER == [kind |-> "magic", key |-> "", val |-> <<>>, open |-> FALSE]
BlankLine == [kind |-> "blank", key |-> "", val |-> <<>>, open |-> FALSE]
HeaderLine(key, value) == [kind |-> "header", key |-> key, val |-> <<value>>, open |-> FALSE]
TextLine(words, open) == [kind |-> "text", key |-> "", val |-> words, open |-> open]

\* the command of the claimed job (ClaimResponse.command), a list of words
Commands == {<<"true">>, <<"echo", "a b">>}

\* commands with an argument that holds a carriage return
RoundTripCommands == Commands \cup {<<"printf", "a\rb">>}

\* shlex.quote puts a word in quotes unless all its characters are safe
Quoted(word) == word \in {"a b", "a\rb"}

\* a word as it comes back from the file: open(..., "r") reads "\r" and
\* "\r\n" as "\n", and splitlines() followed by "\n".join makes "\n" of
\* every other line boundary inside a quoted word
LineEndsRead(word) == IF word = "a\rb" THEN "a\nb" ELSE word

\* a payload line as read
LineRead(line) == [line EXCEPT !.val = [k \in DOMAIN line.val |-> LineEndsRead(line.val[k])]]

\* worker.py lines 175-195: the text _write_cmd_file writes
CmdFileText(command, hybrid_secret) ==
    <<MAGIC_HEADER>>
    \o (IF Truthy(hybrid_secret) THEN <<HeaderLine("SECRET_TOKEN", hybrid_secret[1])>> ELSE <<>>)
    \o <<BlankLine, TextLine(command, FALSE)>>

\* what a reader may find in a file while write_text has written only a part
\* of text: some of its lines, or all lines with the last one cut after some
\* of its words or inside its last word when that word is quoted
PartlyWritten(text) ==
    LET n == Len(text)
        last == text[n]
    IN  {SubSeq(text, 1, k) : k \in 1..(n - 1)}
        \cup {SubSeq(text, 1, n - 1) \o <<TextLine(SubSeq(last.val, 1, k), FALSE)>> :
                  k \in 1..(Len(last.val) - 1)}
        \cup (IF Quoted(last.val[Len(last.val)])
              THEN {SubSeq(text, 1, n - 1) \o <<TextLine(last.val, TRUE)>>}
              ELSE {})

\* agent.py lines 95-135: <<secret, cmd_text, error>> as a record; cmd_text
\* is the payload, its lines stripped of blank lines at both ends
parse_cmd_file(contents) ==
    LET lines == contents
        NonBlank == {i \in 1..Len(lines) : lines[i].kind # "blank"}
        idx == CHOOSE i \in NonBlank : \A k \in NonBlank : i <= k
        Blanks == {i \in (idx + 1)..Len(lines) : lines[i].kind = "blank"}
        stop == IF Blanks = {} THEN Len(lines) + 1
                ELSE CHOOSE i \in Blanks : \A k \in Blanks : i <= k
        Tokens == {i \in (idx + 1)..(stop - 1) :
                      lines[i].kind = "header" /\ lines[i].key = "SECRET_TOKEN"}
        secret == IF Tokens = {} THEN None
                  ELSE Some(lines[CHOOSE i \in Tokens : \A k \in Tokens : k <= i].val[1])
        Payload == {i \in (stop + 1)..Len(lines) : lines[i].kind # "blank"}
        cmd_lines == SubSeq(lines,
                            CHOOSE i \in Payload : \A k \in Payload : i <= k,
                            CHOOSE i \in Payload : \A k \in Payload : k <= i)
        cmd_text == IF Payload = {} THEN <<>>
                    ELSE [i \in DOMAIN cmd_lines |-> LineRead(cmd_lines[i])]
        Failed(err) == [secret |-> None, cmd_text |-> <<>>, error |-> err]
    IN  IF lines = <<>> THEN Failed("empty file")
        ELSE IF NonBlank = {} THEN Failed("no content")
        ELSE IF lines[idx].kind # "magic" THEN Failed("missing magic header '#hybrid-mode'")
        ELSE IF cmd_text = <<>>
             THEN [secret |-> secret, cmd_text |-> <<>>, error |-> "no command payload found"]
        ELSE [secret |-> secret, cmd_text |-> cmd_text, error |-> ""]

\* the words of the lines of a payload, in order
RECURSIVE Words(_)
Words(cmd_text) ==
    IF cmd_text = <<>> THEN <<>> ELSE Head(cmd_text).val \o Words(Tail(cmd_text))

\* agent.py lines 138-164: <<argv, error>> as a record.  json.loads does not
\* give a list for a text shlex.join wrote, so the text goes to shlex.split,
\* which fails on a quotation that is not closed
build_command(cmd_text) ==
    IF \E i \in 1..Len(cmd_text) : cmd_text[i].open
    THEN [argv |-> <<>>, error |-> "failed to parse command: No closing quotation"]
    ELSE IF Words(cmd_text) = <<>>
    THEN [argv |-> <<>>, error |-> "could not parse command payload"]
    ELSE [argv |-> Words(cmd_text), error |-> ""]

(* ---------------------------- hybrid: directories ---------------------- *)
\* <job_id>.cmd and fname + RUNNING_SUFFIX, as the parts of the name
CmdName(job_id) == <<job_id, "cmd">>
RunningName(fname) == Append(fname, "running")

\* a directory without the entry name
Without(dir, name) == [n \in DOMAIN dir \ {name} |-> dir[n]]

\* a directory with the entry name (new or replaced) holding file
With(dir, name, file) == (name :> file) @@ Without(dir, name)

\* a claim that copies the file and leaves it under its name
Copied(dir, src, dst) == With(dir, dst, dir[src])

\* os.rename(src, dst) of an existing src; an existing dst is replaced
Renamed(dir, src, dst) == With(Without(dir, src), dst, dir[src])

\* a result file: the JSON object without its timestamp
Result(exitCode, stdout, stderr) ==
    [exitCode |-> exitCode, stdout |-> stdout, stderr |-> stderr]

\* the result as the text of a JSON object
ResultJson(r) ==
    "{exitCode: " \o ToString(r.exitCode) \o ", stdout: " \o r.stdout
        \o ", stderr: " \o r.stderr \o "}"

(* ---------------------------- hybrid: the agent ------------------------- *)
Agents == {"a1", "a2"}

\* what run_job may return for a command: exit code, stdout, stderr
RunOutcomes == {Result(0, "o", ""), Result(2, "", "e")}

AgentIdle == [pc |-> "poll", jobs |-> <<>>, claimed |-> <<>>, job_id |-> 0,
              argv |-> <<>>, result |-> None]

\* the orders in which list_jobs may return the names of a set: os.listdir
\* gives them in any order and the sort by mtime keeps files of one mtime so
Orders(names) ==
    {o \in [1..Cardinality(names) -> names] : \A i, k \in DOMAIN o : o[i] = o[k] => i = k}

\* agent.py lines 420-425 and 277-290: run_loop lists the queue directory;
\* with no command file it sleeps and lists again
agent_list(a) ==
    /\ agents[a].pc = "poll"
    /\ LET names == {n \in DOMAIN queue_dir : n[Len(n)] = "cmd"}
       IN  /\ names # {}
           /\ \E o \in Orders(names) :
                 agents' = [agents EXCEPT ![a].jobs = o, ![a].pc = "claim"]
    /\ UNCHANGED <<queue_dir, results_dir, hworker, config, ran, published>>
    /\ UNCHANGED <<WORKER_SECRET, JOBS, sim, clock, claiming, returned, resp>>

\* agent.py lines 426-431, 328-331 and 292-310: process_single of the next
\* listed name claims it by os.rename; a name that is gone is skipped
agent_claim(a) ==
    /\ agents[a].pc = "claim"
    /\ IF agents[a].jobs = <<>>
       THEN /\ agents' = [agents EXCEPT ![a].pc = "poll"]
            /\ UNCHANGED queue_dir
       ELSE LET fname == Head(agents[a].jobs)
            IN  IF fname \in DOMAIN queue_dir
                THEN /\ queue_dir' = Renamed(queue_dir, fname, RunningName(fname))
                     /\ agents' = [agents EXCEPT ![a].claimed = RunningName(fname),
                                                 ![a].job_id = fname[1],
                                                 ![a].pc = "read"]
                ELSE /\ agents' = [agents EXCEPT ![a].jobs = Tail(@)]
                     /\ UNCHANGED queue_dir
    /\ UNCHANGED <<results_dir, hworker, config, ran, published>>
    /\ UNCHANGED <<WORKER_SECRET, JOBS, sim, clock, claiming, returned, resp>>

\* a process_single that reports a file it cannot parse as run with success
VerdictLenient(contents) ==
    LET parsed == parse_cmd_file(contents)
        built == build_command(parsed.cmd_text)
    IN  IF parsed.error # ""
        THEN Some(Result(0, "", "parse-error: " \o parsed.error))
        ELSE IF config.secret # None
                /\ (~Truthy(parsed.secret) \/ parsed.secret # config.secret)
        THEN Some(Result(1, "", "SECRET_TOKEN missing or invalid"))
        ELSE IF built.error # "" \/ built.argv = <<>>
        THEN Some(Result(0, "", "command-parse-error: " \o built.error))
        ELSE IF config.dry_run
        THEN Some(Result(0, "dry-run", ""))
        ELSE None

\* a process_single that does not look at the secret
VerdictNoSecret(contents) ==
    LET parsed == parse_cmd_file(contents)
        built == build_command(parsed.cmd_text)
    IN  IF parsed.error # ""
        THEN Some(Result(-1, "", "parse-error: " \o parsed.error))
        ELSE IF built.error # "" \/ built.argv = <<>>
        THEN Some(Result(-1, "", "command-parse-error: " \o built.error))
        ELSE IF config.dry_run
        THEN Some(Result(0, "dry-run", ""))
        ELSE None

\* agent.py lines 354-401: what process_single makes of the contents it has
\* read: the result to publish at once, or None when the command is to be run
Verdict(contents) ==
    LET parsed == parse_cmd_file(contents)
        built == build_command(parsed.cmd_text)
    IN  IF parsed.error # ""
        THEN Some(Result(-1, "", "parse-error: " \o parsed.error))
        ELSE IF config.secret # None
                /\ (~Truthy(parsed.secret) \/ parsed.secret # config.secret)
        THEN Some(Result(1, "", "SECRET_TOKEN missing or invalid"))
        ELSE IF built.error # "" \/ built.argv = <<>>
        THEN Some(Result(-1, "", "command-parse-error: " \o built.error))
        ELSE IF config.dry_run
        THEN Some(Result(0, "dry-run", ""))
        ELSE None

\* agent.py lines 340-401: the claimed file is read and judged
agent_read(a) ==
    /\ agents[a].pc = "read"
    /\ LET contents == queue_dir[agents[a].claimed]
           verdict == Verdict(contents)
       IN  agents' = [agents EXCEPT
                         ![a].result = verdict,
                         ![a].argv = IF verdict = None
                                     THEN build_command(parse_cmd_file(contents).cmd_text).argv
                                     ELSE <<>>,
                         ![a].pc = IF verdict = None THEN "run" ELSE "publish"]
    /\ UNCHANGED <<queue_dir, results_dir, hworker, config, ran, published>>
    /\ UNCHANGED <<WORKER_SECRET, JOBS, sim, clock, claiming, returned, resp>>

\* agent.py lines 403-413 and 198-246: run_job executes the command
agent_run(a) ==
    /\ agents[a].pc = "run"
    /\ ran' = Append(ran, [agent |-> a, job_id |-> agents[a].job_id, argv |-> agents[a].argv])
    /\ \E r \in RunOutcomes :
          agents' = [agents EXCEPT ![a].result = Some(r), ![a].pc = "publish"]
    /\ UNCHANGED <<queue_dir, results_dir, hworker, config, published>>
    /\ UNCHANGED <<WORKER_SECRET, JOBS, sim, clock, claiming, returned, resp>>

\* a complete_job that writes <job_id>.result in place: the file is there
\* while only the first part of its text, up to the exit code, is written
agent_publish_in_place(a) ==
    /\ agents[a].pc = "publish"
    /\ results_dir' = With(results_dir, agents[a].job_id,
                           Result(agents[a].result[1].exitCode, "", ""))
    /\ published' = Append(published, [agent |-> a, job_id |-> agents[a].job_id,
                                       result |-> agents[a].result[1]])
    /\ agents' = [agents EXCEPT ![a].pc = "remove"]
    /\ UNCHANGED <<queue_dir, hworker, config, ran>>
    /\ UNCHANGED <<WORKER_SECRET, JOBS, sim, clock, claiming, returned, resp>>

\* a complete_job whose result never gets to the results directory
agent_publish_lost(a) ==
    /\ agents[a].pc = "publish"
    /\ agents' = [agents EXCEPT ![a].pc = "remove"]
    /\ UNCHANGED <<queue_dir, results_dir, hworker, config, ran, published>>
    /\ UNCHANGED <<WORKER_SECRET, JOBS, sim, clock, claiming, returned, resp>>

\* agent.py lines 312-317 and 77-91: complete_job writes the result file,
\* a temporary file moved onto <job_id>.result by os.replace
agent_publish(a) ==
    /\ agents[a].pc = "publish"
    /\ results_dir' = With(results_dir, agents[a].job_id, agents[a].result[1])
    /\ published' = Append(published, [agent |-> a, job_id |-> agents[a].job_id,
                                       result |-> agents[a].result[1]])
    /\ agents' = [agents EXCEPT ![a].pc = "remove"]
    /\ UNCHANGED <<queue_dir, hworker, config, ran>>
    /\ UNCHANGED <<WORKER_SECRET, JOBS, sim, clock, claiming, returned, resp>>

\* agent.py lines 320-326: complete_job removes the running file; run_loop
\* goes on with the next listed name
agent_remove(a) ==
    /\ agents[a].pc = "remove"
    /\ queue_dir' = Without(queue_dir, agents[a].claimed)
    /\ agents' = [agents EXCEPT ![a] = [AgentIdle EXCEPT !.pc = "claim",
                                                        !.jobs = Tail(agents[a].jobs)]]
    /\ UNCHANGED <<results_dir, hworker, config, ran, published>>
    /\ UNCHANGED <<WORKER_SECRET, JOBS, sim, clock, claiming, returned, resp>>

(* ---------------------------- hybrid: the worker ----------------------- *)
\* --worker-id of the worker in hybrid mode, and the job it has claimed
HybridWorkerId == "A"
HybridJob == 1

\* main.py lines 446-475: the store and the response append_job_logs leaves
Appended(job_id, worker_id, lines, secret) ==
    IF ~_validate_worker_secret(secret)
    THEN [jobs |-> JOBS, resp |-> Response("append", 403, "invalid worker secret", 0)]
    ELSE IF job_id \notin JobIds
    THEN [jobs |-> JOBS, resp |-> Response("append", 404, "job not found", 0)]
    ELSE IF Mismatch(JOBS[job_id], worker_id)
    THEN [jobs |-> JOBS, resp |-> Response("append", 403, "worker_id mismatch for job", 0)]
    ELSE [jobs |-> Put(job_id, [JOBS[job_id] EXCEPT !.logs = AppendLines(@, worker_id, lines)]),
          resp |-> Response("append", 204, "None", 0)]

\* main.py lines 478-520: the store and the response complete_job leaves
Completed(job_id, worker_id, req, secret) ==
    IF ~_validate_worker_secret(secret)
    THEN [jobs |-> JOBS, resp |-> Response("complete", 403, "invalid worker secret", 0)]
    ELSE IF job_id \notin JobIds
    THEN [jobs |-> JOBS, resp |-> Response("complete", 404, "job not found", 0)]
    ELSE IF Mismatch(JOBS[job_id], worker_id)
    THEN [jobs |-> JOBS, resp |-> Response("complete", 403, "worker_id mismatch for job", 0)]
    ELSE [jobs |-> Put(job_id, CompletedRecord(JOBS[job_id], worker_id, req)),
          resp |-> Response("complete", 200, "job_id, state", job_id)]

\* worker.py line 99: session.post raises a RequestException when the
\* request does not reach the application.  A worker started with a network
\* has the field net, "up" or "down"; without the field every request arrives.
NetDown == "net" \in DOMAIN hworker /\ hworker.net = "down"

\* an append_logs that lets the exception of a request that is not delivered
\* go up to its caller
append_logs_raising(job_id, lines) ==
    /\ ~NetDown
    /\ LET out == Appended(job_id, HybridWorkerId, lines, Some(WORKER_SECRET))
       IN  JOBS' = out.jobs /\ resp' = out.resp

\* worker.py lines 132-143: append_logs posts the lines with the worker's
\* secret header; the application serves the request in one step.  A request
\* that does not arrive, and an answer of 4xx or 5xx (raise_for_status, line
\* 100), are caught at line 141 and append_logs returns False.
append_logs(job_id, lines) ==
    IF NetDown
    THEN UNCHANGED <<JOBS, resp>>
    ELSE LET out == Appended(job_id, HybridWorkerId, lines, Some(WORKER_SECRET))
         IN  JOBS' = out.jobs /\ resp' = out.resp

\* the worker moves on to position pc
HwAt(pc) == hworker' = [hworker EXCEPT !.pc = pc]

\* worker.py lines 244-249: run_command_and_stream in hybrid mode announces
\* the hand-off
hw_announce ==
    /\ hworker.pc = "start"
    /\ append_logs(hworker.job_id, <<"[hybrid] writing .cmd">>)
    /\ HwAt("open")
    /\ UNCHANGED <<queue_dir, results_dir, agents, config, ran, published>>
    /\ UNCHANGED <<WORKER_SECRET, sim, clock, claiming, returned>>

\* worker.py line 194: write_text opens <job_id>.cmd for writing, which
\* creates it empty
hw_open ==
    /\ hworker.pc = "open"
    /\ queue_dir' = With(queue_dir, CmdName(hworker.job_id), <<>>)
    /\ HwAt("write")
    /\ UNCHANGED <<results_dir, agents, config, ran, published>>
    /\ UNCHANGED <<WORKER_SECRET, JOBS, sim, clock, claiming, returned, resp>>

\* the directory after text went into the file the worker has open, under
\* the name the file has by now (an agent may have renamed or removed it)
Written(job_id, text) ==
    IF CmdName(job_id) \in DOMAIN queue_dir
    THEN With(queue_dir, CmdName(job_id), text)
    ELSE IF RunningName(CmdName(job_id)) \in DOMAIN queue_dir
    THEN With(queue_dir, RunningName(CmdName(job_id)), text)
    ELSE queue_dir

\* worker.py line 194: a first part of the text reaches the file
hw_write_part ==
    /\ hworker.pc = "write"
    /\ \E text \in PartlyWritten(CmdFileText(hworker.command, config.hybrid_secret)) :
          queue_dir' = Written(hworker.job_id, text)
    /\ HwAt("write rest")
    /\ UNCHANGED <<results_dir, agents, config, ran, published>>
    /\ UNCHANGED <<WORKER_SECRET, JOBS, sim, clock, claiming, returned, resp>>

\* worker.py line 194: the whole text is in the file and the file is closed
hw_write ==
    /\ hworker.pc \in {"write", "write rest"}
    /\ queue_dir' = Written(hworker.job_id, CmdFileText(hworker.command, config.hybrid_secret))
    /\ HwAt("written")
    /\ UNCHANGED <<results_dir, agents, config, ran, published>>
    /\ UNCHANGED <<WORKER_SECRET, JOBS, sim, clock, claiming, returned, resp>>

\* worker.py lines 251-253
hw_written ==
    /\ hworker.pc = "written"
    /\ append_logs(hworker.job_id, <<"[hybrid] command file written">>)
    /\ HwAt("wait")
    /\ UNCHANGED <<queue_dir, results_dir, agents, config, ran, published>>
    /\ UNCHANGED <<WORKER_SECRET, sim, clock, claiming, returned>>

\* worker.py lines 261-263
hw_wait ==
    /\ hworker.pc = "wait"
    /\ append_logs(hworker.job_id, <<"[hybrid] waiting for result">>)
    /\ HwAt("poll")
    /\ UNCHANGED <<queue_dir, results_dir, agents, config, ran, published>>
    /\ UNCHANGED <<WORKER_SECRET, sim, clock, claiming, returned>>

\* worker.py lines 206-216: _poll_for_result finds the result file, reads
\* it and removes it
hw_read_result ==
    /\ hworker.pc = "poll"
    /\ hworker.job_id \in DOMAIN results_dir
    /\ hworker' = [hworker EXCEPT !.result = Some(results_dir[hworker.job_id]),
                                  !.pc = "stdout"]
    /\ results_dir' = Without(results_dir, hworker.job_id)
    /\ UNCHANGED <<queue_dir, agents, config, ran, published>>
    /\ UNCHANGED <<WORKER_SECRET, JOBS, sim, clock, claiming, returned, resp>>

\* worker.py lines 203-221 and 265-267: the deadline has passed (or the
\* worker is told to stop) before a poll found the result file, which may
\* have been published since the last poll; the worker logs the timeout
hw_timeout ==
    /\ hworker.pc = "poll"
    /\ append_logs(hworker.job_id, <<"[hybrid] timed out waiting for result">>)
    /\ hworker' = [hworker EXCEPT
                      !.report = Some([success |-> FALSE, exit_code |-> 124,
                                       message |-> Some("[hybrid] timed out waiting for result"),
                                       result |-> None]),
                      !.pc = "complete"]
    /\ UNCHANGED <<queue_dir, results_dir, agents, config, ran, published>>
    /\ UNCHANGED <<WORKER_SECRET, sim, clock, claiming, returned>>

\* worker.py lines 297-306: the lines of stdout and of stderr are appended
hw_stdout ==
    /\ hworker.pc = "stdout"
    /\ IF hworker.result[1].stdout # ""
       THEN append_logs(hworker.job_id, <<"[hybrid stdout] " \o hworker.result[1].stdout>>)
       ELSE UNCHANGED <<JOBS, resp>>
    /\ HwAt("stderr")
    /\ UNCHANGED <<queue_dir, results_dir, agents, config, ran, published>>
    /\ UNCHANGED <<WORKER_SECRET, sim, clock, claiming, returned>>

hw_stderr ==
    /\ hworker.pc = "stderr"
    /\ IF hworker.result[1].stderr # ""
       THEN append_logs(hworker.job_id, <<"[hybrid stderr] " \o hworker.result[1].stderr>>)
       ELSE UNCHANGED <<JOBS, resp>>
    /\ HwAt("report")
    /\ UNCHANGED <<queue_dir, results_dir, agents, config, ran, published>>
    /\ UNCHANGED <<WORKER_SECRET, sim, clock, claiming, returned>>

\* worker.py lines 296 and 308-310: the exit code of the result decides
hw_report ==
    /\ hworker.pc = "report"
    /\ LET exit_code == hworker.result[1].exitCode
           msg == "hybrid-agent exit_code=" \o ToString(exit_code)
       IN  /\ append_logs(hworker.job_id, <<msg>>)
           /\ hworker' = [hworker EXCEPT
                             !.report = Some([success |-> exit_code = 0,
                                              exit_code |-> exit_code,
                                              message |-> Some(msg),
                                              result |-> Some(ResultJson(hworker.result[1]))]),
                             !.pc = "complete"]
    /\ UNCHANGED <<queue_dir, results_dir, agents, config, ran, published>>
    /\ UNCHANGED <<WORKER_SECRET, sim, clock, claiming, returned>>

\* worker.py lines 145-165, 268 and 311-317: the completion report
hw_complete ==
    /\ hworker.pc = "complete"
    /\ LET out == Completed(hworker.job_id, HybridWorkerId, hworker.report[1],
                            Some(WORKER_SECRET))
       IN  JOBS' = out.jobs /\ resp' = out.resp
    /\ HwAt("done")
    /\ UNCHANGED <<queue_dir, results_dir, agents, config, ran, published>>
    /\ UNCHANGED <<WORKER_SECRET, sim, clock, claiming, returned>>

(* ---------------------------- hybrid: the system ----------------------- *)
\* --secret of the agents, --hybrid-secret of the worker
AgentSecrets == {None, Some("tok")}
HybridSecrets == {None, Some("tok"), Some("old")}

\* The worker in hybrid mode has claimed job HybridJob and enters
\* run_command_and_stream; the agents are in run_loop.
InitHybrid ==
    /\ WORKER_SECRET = "s3"
    /\ clock = 0
    /\ \E req \in JobRequests :
          JOBS = <<StartedRecord(ClaimedRecord(job_data(HybridJob, req, Iso(0)), HybridWorkerId),
                                 HybridWorkerId)>>
    /\ sim = <<0>>
    /\ claiming = None
    /\ returned = <<1>>
    /\ resp = Response("claim", 200, "ClaimResponse", HybridJob)
    /\ queue_dir = <<>>
    /\ results_dir = <<>>
    /\ agents = [a \in Agents |-> AgentIdle]
    /\ \E c \in Commands :
          hworker = [pc |-> "start", job_id |-> HybridJob, command |-> c,
                     result |-> None, report |-> None]
    /\ \E s \in AgentSecrets, h \in HybridSecrets, d \in BOOLEAN :
          config = [secret |-> s, hybrid_secret |-> h, dry_run |-> d]
    /\ ran = <<>>
    /\ published = <<>>

NextHybrid ==
    \/ \E a \in Agents : agent_list(a)
    \/ \E a \in Agents : agent_claim(a)
    \/ \E a \in Agents : agent_read(a)
    \/ \E a \in Agents : agent_run(a)
    \/ \E a \in Agents : agent_publish(a)
    \/ \E a \in Agents : agent_remove(a)
    \/ hw_announce
    \/ hw_open
    \/ hw_write_part
    \/ hw_write
    \/ hw_written
    \/ hw_wait
    \/ hw_read_result
    \/ hw_timeout
    \/ hw_stdout
    \/ hw_stderr
    \/ hw_report
    \/ hw_complete

SpecHybrid == InitHybrid /\ [][NextHybrid]_vars

\* the steps of the worker
HwNext ==
    \/ hw_announce \/ hw_open \/ hw_write_part \/ hw_write \/ hw_written \/ hw_wait
    \/ hw_read_result \/ hw_timeout \/ hw_stdout \/ hw_stderr \/ hw_report \/ hw_complete

\* the worker process keeps running: run_command_and_stream has no step
\* that waits for anything but the result file, and that wait has a deadline
SpecHybridFair == SpecHybrid /\ WF_vars(HwNext)

(* ---------------------------- hybrid: the wait and its deadline --------- *)
\* worker.py lines 203-204: the default of timeout_seconds and the grace
DefaultTimeoutSeconds == 900
Grace == 5

\* timeout_seconds of the ClaimResponse: a positive number of seconds
HybridTimeouts == {1, 2}

\* a wait that has no deadline
DeadlineNever(now, timeout_seconds) == MaxTime + 1

\* worker.py lines 203-204: int(job.get("timeout_seconds") or 900), and
\* deadline = time.time() + timeout_seconds + 5
Deadline(now, timeout_seconds) ==
    now + (IF timeout_seconds # 0 THEN timeout_seconds ELSE DefaultTimeoutSeconds) + Grace

\* The worker of InitHybrid with the clock it reads and the timeout of its
\* job; the agents validate no secret and run what they claim.
InitTimed ==
    /\ WORKER_SECRET = "s3"
    /\ clock = 0
    /\ \E req \in JobRequests :
          JOBS = <<StartedRecord(ClaimedRecord(job_data(HybridJob, req, Iso(0)), HybridWorkerId),
                                 HybridWorkerId)>>
    /\ sim = <<0>>
    /\ claiming = None
    /\ returned = <<1>>
    /\ resp = Response("claim", 200, "ClaimResponse", HybridJob)
    /\ queue_dir = <<>>
    /\ results_dir = <<>>
    /\ agents = [a \in Agents |-> AgentIdle]
    /\ \E c \in Commands, t \in HybridTimeouts, now \in {0, 1} :
          hworker = [pc |-> "start", job_id |-> HybridJob, command |-> c,
                     result |-> None, report |-> None,
                     timeout_seconds |-> t, now |-> now, deadline |-> None]
    /\ config = [secret |-> None, hybrid_secret |-> None, dry_run |-> FALSE]
    /\ ran = <<>>
    /\ published = <<>>

\* time passes; the worker reads the clock from the start of its wait on
tick ==
    /\ hworker.deadline # None
    /\ hworker.now < MaxTime
    /\ hworker' = [hworker EXCEPT !.now = @ + 1]
    /\ UNCHANGED <<queue_dir, results_dir, agents, config, ran, published>>
    /\ UNCHANGED <<WORKER_SECRET, JOBS, sim, clock, claiming, returned, resp>>

\* worker.py lines 203-204: _poll_for_result sets its deadline
hwt_deadline ==
    /\ hworker.pc = "poll"
    /\ hworker.deadline = None
    /\ hworker' = [hworker EXCEPT
                      !.deadline = Some(Deadline(hworker.now, hworker.timeout_seconds))]
    /\ UNCHANGED <<queue_dir, results_dir, agents, config, ran, published>>
    /\ UNCHANGED <<WORKER_SECRET, JOBS, sim, clock, claiming, returned, resp>>

\* worker.py lines 206-216: before the deadline, a poll that finds the
\* result file reads it (one that finds none sleeps and polls again)
hwt_read_result ==
    /\ hworker.deadline # None
    /\ hworker.now < hworker.deadline[1]
    /\ hw_read_result

\* worker.py lines 206, 220 and 265-269: at the deadline the loop ends
hwt_timeout ==
    /\ hworker.deadline # None
    /\ hworker.now >= hworker.deadline[1]
    /\ hw_timeout

\* the steps of the worker that waits with a deadline
HwtNext ==
    \/ hw_announce \/ hw_open \/ hw_write_part \/ hw_write \/ hw_written \/ hw_wait
    \/ hwt_deadline \/ hwt_read_result \/ hwt_timeout
    \/ hw_stdout \/ hw_stderr \/ hw_report \/ hw_complete

NextTimed ==
    \/ \E a \in Agents : agent_list(a)
    \/ \E a \in Agents : agent_claim(a)
    \/ \E a \in Agents : agent_read(a)
    \/ \E a \in Agents : agent_run(a)
    \/ \E a \in Agents : agent_publish(a)
    \/ \E a \in Agents : agent_remove(a)
    \/ hw_announce
    \/ hw_open
    \/ hw_write_part
    \/ hw_write
    \/ hw_written
    \/ hw_wait
    \/ hwt_deadline
    \/ hwt_read_result
    \/ hwt_timeout
    \/ hw_stdout
    \/ hw_stderr
    \/ hw_report
    \/ hw_complete
    \/ tick

\* the worker keeps running and its clock keeps going; the agents may stop
SpecTimed == InitTimed /\ [][NextTimed]_vars /\ WF_vars(HwtNext) /\ WF_vars(tick)

(* ---------------------------- the worker runs the command itself ------- *)
\* The worker without hybrid directories (worker.py lines 320-398) starts
\* the command as a child process and streams its output.  hworker holds
\* the worker's position, the child process (proc: "none", "running",
\* "exited", "killed"), the lines in its stdout pipe and the lines read
\* but not yet sent.

\* lines the child process writes at most
MaxLines == 2

\* --log-batch of the worker
log_batch == 2

\* exit codes of a child process that exits
ExitCodes == {0, 2}

InitLocal ==
    /\ WORKER_SECRET = "s3"
    /\ clock = 0
    /\ \E req \in JobRequests :
          JOBS = <<StartedRecord(ClaimedRecord(job_data(HybridJob, req, Iso(0)), HybridWorkerId),
                                 HybridWorkerId)>>
    /\ sim = <<0>>
    /\ claiming = None
    /\ returned = <<1>>
    /\ resp = Response("claim", 200, "ClaimResponse", HybridJob)
    /\ queue_dir = <<>>
    /\ results_dir = <<>>
    /\ agents = <<>>
    /\ \E c \in Commands, t \in HybridTimeouts :
          hworker = [pc |-> "start", job_id |-> HybridJob, command |-> c,
                     result |-> None, report |-> None,
                     timeout_seconds |-> t, now |-> 0, stop |-> FALSE,
                     proc |-> "none", exit_code |-> 0, written |-> 0,
                     pipe |-> <<>>, buffer |-> <<>>]
    /\ config = [secret |-> None, hybrid_secret |-> None, dry_run |-> FALSE]
    /\ ran = <<>>
    /\ published = <<>>

\* what a step of the worker or of its child process leaves alone
LwFrame ==
    /\ UNCHANGED <<queue_dir, results_dir, agents, config, ran, published>>
    /\ UNCHANGED <<WORKER_SECRET, sim, clock, claiming, returned>>

\* a failure report of the worker itself
LwReport(exit_code, message) ==
    Some([success |-> FALSE, exit_code |-> exit_code, message |-> Some(message),
          result |-> None])

\* worker.py lines 327-336: subprocess.Popen starts the command
lw_popen ==
    /\ hworker.pc = "start"
    /\ hworker' = [hworker EXCEPT !.proc = "running", !.pc = "stream"]
    /\ UNCHANGED <<JOBS, resp>>
    /\ LwFrame

\* worker.py lines 337-342: the executable does not exist
lw_popen_fails ==
    /\ hworker.pc = "start"
    /\ append_logs(hworker.job_id, <<"executable not found">>)
    /\ hworker' = [hworker EXCEPT !.report = LwReport(127, "executable not found"),
                                  !.pc = "complete"]
    /\ LwFrame

\* the child process writes a line to its stdout
proc_write ==
    /\ hworker.proc = "running"
    /\ hworker.written < MaxLines
    /\ hworker' = [hworker EXCEPT !.pipe = Append(@, "out"), !.written = @ + 1]
    /\ UNCHANGED <<JOBS, resp>>
    /\ LwFrame

\* the child process exits, which closes its stdout
proc_exit ==
    /\ hworker.proc = "running"
    /\ \E c \in ExitCodes :
          hworker' = [hworker EXCEPT !.proc = "exited", !.exit_code = c]
    /\ UNCHANGED <<JOBS, resp>>
    /\ LwFrame

\* worker.py lines 352-370 and 384-392: the loop over proc.stdout gets a
\* line; a worker told to stop kills the child and reports that, otherwise
\* the line goes to the buffer, which is sent when it holds log_batch lines
lw_line ==
    /\ hworker.pc = "stream"
    /\ hworker.pipe # <<>>
    /\ IF hworker.stop
       THEN /\ append_logs(hworker.job_id, <<"Worker shutting down, terminated job process">>)
            /\ hworker' = [hworker EXCEPT !.proc = "killed",
                                          !.report = LwReport(130, "terminated by worker"),
                                          !.pc = "complete"]
       ELSE LET buffer == Append(hworker.buffer, Head(hworker.pipe))
            IN  IF Len(buffer) >= log_batch
                THEN /\ append_logs(hworker.job_id, buffer)
                     /\ hworker' = [hworker EXCEPT !.pipe = Tail(@), !.buffer = <<>>]
                ELSE /\ UNCHANGED <<JOBS, resp>>
                     /\ hworker' = [hworker EXCEPT !.pipe = Tail(@), !.buffer = buffer]
    /\ LwFrame

\* worker.py lines 352 and 372-374: the loop ends when the pipe is closed
\* and empty; what is left in the buffer is sent
lw_eof ==
    /\ hworker.pc = "stream"
    /\ hworker.pipe = <<>>
    /\ hworker.proc = "exited"
    /\ IF hworker.buffer # <<>>
       THEN append_logs(hworker.job_id, hworker.buffer)
       ELSE UNCHANGED <<JOBS, resp>>
    /\ hworker' = [hworker EXCEPT !.buffer = <<>>, !.pc = "join"]
    /\ LwFrame

\* worker.py lines 376-379: proc.wait() gives the exit code, which decides
lw_wait ==
    /\ hworker.pc = "join"
    /\ LET msg == "Process exited with code " \o ToString(hworker.exit_code)
       IN  /\ append_logs(hworker.job_id, <<msg>>)
           /\ hworker' = [hworker EXCEPT
                             !.report = Some([success |-> hworker.exit_code = 0,
                                              exit_code |-> hworker.exit_code,
                                              message |-> Some(msg),
                                              result |-> None]),
                             !.pc = "complete"]
    /\ LwFrame

\* worker.py line 353 and the signal handler: the worker is told to stop
lw_signal ==
    /\ hworker.pc = "stream"
    /\ ~hworker.stop
    /\ hworker' = [hworker EXCEPT !.stop = TRUE]
    /\ UNCHANGED <<JOBS, resp>>
    /\ LwFrame

\* time passes while the command runs
lw_tick ==
    /\ hworker.pc \in {"stream", "join"}
    /\ hworker.now < MaxTime
    /\ hworker' = [hworker EXCEPT !.now = @ + 1]
    /\ UNCHANGED <<JOBS, resp>>
    /\ LwFrame

\* the steps of the worker
LwNext ==
    \/ lw_popen \/ lw_popen_fails \/ lw_line \/ lw_eof \/ lw_wait \/ hw_complete

NextLocal ==
    \/ lw_popen
    \/ lw_popen_fails
    \/ proc_write
    \/ proc_exit
    \/ lw_line
    \/ lw_eof
    \/ lw_wait
    \/ hw_complete
    \/ lw_signal
    \/ lw_tick

\* the worker keeps running and time goes on; the child process may go on
\* for ever without writing
SpecLocal == InitLocal /\ [][NextLocal]_vars /\ WF_vars(LwNext) /\ WF_vars(lw_tick)

(* ---------------------------- the worker chooses its mode -------------- *)
\* --hybrid-queue and --hybrid-results of the worker; <<>> is not given
HybridDirs == {None, Some("dir")}

\* a worker that hands off only when it also has a hybrid secret
HybridEnabledWithSecret(cfg) ==
    cfg.hybrid_queue # None /\ cfg.hybrid_results # None /\ Truthy(cfg.hybrid_secret)

\* worker.py line 244: self.hybrid_queue and self.hybrid_results
HybridEnabled(cfg) == cfg.hybrid_queue # None /\ cfg.hybrid_results # None

\* The worker has claimed the job and enters run_command_and_stream, with
\* or without hybrid directories; the agents are in run_loop.
InitWorker ==
    /\ WORKER_SECRET = "s3"
    /\ clock = 0
    /\ \E req \in JobRequests :
          JOBS = <<StartedRecord(ClaimedRecord(job_data(HybridJob, req, Iso(0)), HybridWorkerId),
                                 HybridWorkerId)>>
    /\ sim = <<0>>
    /\ claiming = None
    /\ returned = <<1>>
    /\ resp = Response("claim", 200, "ClaimResponse", HybridJob)
    /\ queue_dir = <<>>
    /\ results_dir = <<>>
    /\ agents = [a \in Agents |-> AgentIdle]
    /\ \E c \in Commands :
          hworker = [pc |-> "start", job_id |-> HybridJob, command |-> c,
                     result |-> None, report |-> None,
                     timeout_seconds |-> 1, now |-> 0, stop |-> FALSE,
                     proc |-> "none", exit_code |-> 0, written |-> 0,
                     pipe |-> <<>>, buffer |-> <<>>]
    /\ \E q \in HybridDirs, r \in HybridDirs, h \in {None, Some("tok")} :
          config = [secret |-> None, hybrid_secret |-> h, dry_run |-> FALSE,
                    hybrid_queue |-> q, hybrid_results |-> r]
    /\ ran = <<>>
    /\ published = <<>>

\* worker.py lines 244-249: with both directories the hand-off starts
hwm_announce == HybridEnabled(config) /\ hw_announce

\* worker.py lines 245-259: making the directories or writing the command
\* file raises; the worker logs that and reports the job failed
hwm_write_fails ==
    /\ hworker.pc = "open"
    /\ append_logs(hworker.job_id, <<"[hybrid] failed to write .cmd file">>)
    /\ hworker' = [hworker EXCEPT
                      !.report = LwReport(1, "[hybrid] failed to write .cmd file"),
                      !.pc = "complete"]
    /\ LwFrame

\* worker.py lines 320-348: without them the worker starts the command
lwm_popen == ~HybridEnabled(config) /\ lw_popen
lwm_popen_fails == ~HybridEnabled(config) /\ lw_popen_fails

NextWorker ==
    \/ \E a \in Agents : agent_list(a)
    \/ \E a \in Agents : agent_claim(a)
    \/ \E a \in Agents : agent_read(a)
    \/ \E a \in Agents : agent_run(a)
    \/ \E a \in Agents : agent_publish(a)
    \/ \E a \in Agents : agent_remove(a)
    \/ hwm_announce
    \/ hwm_write_fails
    \/ hw_open
    \/ hw_write_part
    \/ hw_write
    \/ hw_written
    \/ hw_wait
    \/ hw_read_result
    \/ hw_timeout
    \/ hw_stdout
    \/ hw_stderr
    \/ hw_report
    \/ hw_complete
    \/ lwm_popen
    \/ lwm_popen_fails
    \/ proc_write
    \/ proc_exit
    \/ lw_line
    \/ lw_eof
    \/ lw_wait
    \/ lw_signal

SpecWorker == InitWorker /\ [][NextWorker]_vars

(* ---------------------------- the worker's main loop -------------------- *)
\* LocalWorker.run (worker.py lines 401-428) claims a job, runs it to the
\* return of run_command_and_stream, sleeps and claims the next one.  The
\* worker reaches the application over a network that may be down, and the
\* application may be restarted, which empties its in-memory store (main.py
\* line 141).  hworker.sent lists the job ids of the complete_job calls made
\* and hworker.claimed the job ids the worker was handed.

\* commands of a ClaimResponse: command is a list of str, which may be empty
LoopCommands == {<<>>, <<"true">>}

\* the agent process that serves the queue directory
LoopAgents == {"a1"}

\* a worker for which no command is empty
EmptyCommandNever(command) == FALSE

\* worker.py line 233: not command
EmptyCommand(command) == command = <<>>

\* the locals of run_command_and_stream for a job just claimed
LoopFrame(job_id, command, w) ==
    [pc |-> "start", job_id |-> job_id, command |-> command,
     result |-> None, report |-> None,
     timeout_seconds |-> 1, now |-> 0, stop |-> FALSE,
     proc |-> "none", exit_code |-> 0, written |-> 0,
     pipe |-> <<>>, buffer |-> <<>>,
     net |-> w.net, sent |-> w.sent, claimed |-> Append(w.claimed, job_id)]

\* Two jobs were submitted; the worker has claimed the first and enters
\* run_command_and_stream, with or without hybrid directories.
InitLoop ==
    /\ WORKER_SECRET = "s3"
    /\ clock = 0
    /\ LET req == [ref |-> <<"m">>, runtime |-> "container"]
       IN  JOBS = <<StartedRecord(ClaimedRecord(job_data(1, req, Iso(0)), HybridWorkerId),
                                  HybridWorkerId),
                    job_data(2, req, Iso(0))>>
    /\ sim = <<0, 0>>
    /\ claiming = None
    /\ returned = <<1, 0>>
    /\ resp = Response("claim", 200, "ClaimResponse", 1)
    /\ queue_dir = <<>>
    /\ results_dir = <<>>
    /\ agents = [a \in LoopAgents |-> AgentIdle]
    /\ \E c \in LoopCommands :
          hworker = LoopFrame(1, c, [net |-> "up", sent |-> <<>>, claimed |-> <<>>])
    /\ \E d \in HybridDirs :
          config = [secret |-> None, hybrid_secret |-> None, dry_run |-> FALSE,
                    hybrid_queue |-> d, hybrid_results |-> d]
    /\ ran = <<>>
    /\ published = <<>>

\* the network goes down or comes back
net_toggle ==
    /\ hworker' = [hworker EXCEPT !.net = IF @ = "up" THEN "down" ELSE "up"]
    /\ UNCHANGED <<JOBS, resp>>
    /\ LwFrame

\* main.py line 141: the application is restarted and its store is empty
app_restart ==
    /\ JOBS # <<>>
    /\ JOBS' = <<>>
    /\ sim' = <<>>
    /\ returned' = <<>>
    /\ resp' = Response("", 0, "None", 0)
    /\ UNCHANGED <<hvars, WORKER_SECRET, clock, claiming>>

\* worker.py lines 233-241: a job with an empty command is reported failed
wl_empty ==
    /\ hworker.pc = "start"
    /\ EmptyCommand(hworker.command)
    /\ hworker' = [hworker EXCEPT !.report = LwReport(1, "empty command"),
                                  !.pc = "complete"]
    /\ UNCHANGED <<JOBS, resp>>
    /\ LwFrame

\* worker.py lines 243-249 and 320-348: a command that is not empty is
\* handed off or started
wl_announce == ~EmptyCommand(hworker.command) /\ hwm_announce
wl_popen == ~EmptyCommand(hworker.command) /\ lwm_popen
wl_popen_fails == ~EmptyCommand(hworker.command) /\ lwm_popen_fails

\* the worker after two complete_job calls for one job
ReturnedAfterSecondReport(w) ==
    [w EXCEPT !.sent = Append(@, w.job_id),
              !.pc = IF Len(SelectSeq(w.sent, LAMBDA j : j = w.job_id)) >= 1
                     THEN "done" ELSE "complete"]

\* worker.py lines 241, 259, 269, 294, 318, 342, 348, 382, 392: after its
\* complete_job call run_command_and_stream returns
Returned(w) == [w EXCEPT !.sent = Append(@, w.job_id), !.pc = "done"]

\* worker.py lines 145-166: complete_job posts the report; a request that
\* does not arrive or is answered 4xx or 5xx is caught and gives False
wl_complete ==
    /\ hworker.pc = "complete"
    /\ IF NetDown
       THEN UNCHANGED <<JOBS, resp>>
       ELSE LET out == Completed(hworker.job_id, HybridWorkerId, hworker.report[1],
                                 Some(WORKER_SECRET))
            IN  JOBS' = out.jobs /\ resp' = out.resp
    /\ hworker' = Returned(hworker)
    /\ LwFrame

\* worker.py lines 411-415 and 103-130, main.py lines 401-443: the worker,
\* not told to stop, claims again and is handed the oldest PENDING job
wl_claim ==
    /\ hworker.pc = "done"
    /\ ~hworker.stop
    /\ ~NetDown
    /\ LET job_id == Oldest(None)
       IN  /\ job_id # 0
           /\ JOBS' = Put(job_id, StartedRecord(ClaimedRecord(JOBS[job_id], HybridWorkerId),
                                                HybridWorkerId))
           /\ returned' = [returned EXCEPT ![job_id] = @ + 1]
           /\ resp' = Response("claim", 200, "ClaimResponse", job_id)
           /\ \E c \in LoopCommands : hworker' = LoopFrame(job_id, c, hworker)
    /\ UNCHANGED <<queue_dir, results_dir, agents, config, ran, published>>
    /\ UNCHANGED <<WORKER_SECRET, sim, clock, claiming>>

NextLoop ==
    \/ \E a \in LoopAgents : agent_list(a)
    \/ \E a \in LoopAgents : agent_claim(a)
    \/ \E a \in LoopAgents : agent_read(a)
    \/ \E a \in LoopAgents : agent_run(a)
    \/ \E a \in LoopAgents : agent_publish(a)
    \/ \E a \in LoopAgents : agent_remove(a)
    \/ wl_empty
    \/ wl_announce
    \/ hwm_write_fails
    \/ hw_open
    \/ hw_write_part
    \/ hw_write
    \/ hw_written
    \/ hw_wait
    \/ hw_read_result
    \/ hw_timeout
    \/ hw_stdout
    \/ hw_stderr
    \/ hw_report
    \/ wl_popen
    \/ wl_popen_fails
    \/ proc_write
    \/ proc_exit
    \/ lw_line
    \/ lw_eof
    \/ lw_wait
    \/ lw_signal
    \/ wl_complete
    \/ wl_claim

SpecLoop == InitLoop /\ [][NextLoop]_vars

(* ---------------------------- the worker and a network that fails ------- *)
\* The worker has claimed the one job of the store and runs it while the
\* network goes down and comes back and the application may be restarted.
InitNet ==
    /\ WORKER_SECRET = "s3"
    /\ clock = 0
    /\ LET req == [ref |-> <<"m">>, runtime |-> "container"]
       IN  JOBS = <<StartedRecord(ClaimedRecord(job_data(1, req, Iso(0)), HybridWorkerId),
                                  HybridWorkerId)>>
    /\ sim = <<0>>
    /\ claiming = None
    /\ returned = <<1>>
    /\ resp = Response("claim", 200, "ClaimResponse", 1)
    /\ queue_dir = <<>>
    /\ results_dir = <<>>
    /\ agents = [a \in LoopAgents |-> AgentIdle]
    /\ \E c \in LoopCommands :
          hworker = LoopFrame(1, c, [net |-> "up", sent |-> <<>>, claimed |-> <<>>])
    /\ \E d \in HybridDirs :
          config = [secret |-> None, hybrid_secret |-> None, dry_run |-> FALSE,
                    hybrid_queue |-> d, hybrid_results |-> d]
    /\ ran = <<>>
    /\ published = <<>>

\* the steps of the worker up to the return of run_command_and_stream
WnNext ==
    \/ wl_empty \/ wl_announce \/ hwm_write_fails \/ hw_open \/ hw_write_part
    \/ hw_write \/ hw_written \/ hw_wait \/ hw_read_result \/ hw_timeout
    \/ hw_stdout \/ hw_stderr \/ hw_report \/ wl_popen \/ wl_popen_fails
    \/ lw_line \/ lw_eof \/ lw_wait \/ wl_complete

NextNet ==
    \/ \E a \in LoopAgents : agent_list(a)
    \/ \E a \in LoopAgents : agent_claim(a)
    \/ \E a \in LoopAgents : agent_read(a)
    \/ \E a \in LoopAgents : agent_run(a)
    \/ \E a \in LoopAgents : agent_publish(a)
    \/ \E a \in LoopAgents : agent_remove(a)
    \/ wl_empty
    \/ wl_announce
    \/ hwm_write_fails
    \/ hw_open
    \/ hw_write_part
    \/ hw_write
    \/ hw_written
    \/ hw_wait
    \/ hw_read_result
    \/ hw_timeout
    \/ hw_stdout
    \/ hw_stderr
    \/ hw_report
    \/ wl_popen
    \/ wl_popen_fails
    \/ proc_write
    \/ proc_exit
    \/ lw_line
    \/ lw_eof
    \/ lw_wait
    \/ lw_signal
    \/ wl_complete
    \/ net_toggle
    \/ app_restart

\* the worker keeps running and a child process it started ends
SpecNet == InitNet /\ [][NextNet]_vars /\ WF_vars(WnNext) /\ WF_vars(proc_exit)

(* ---------------------------- hybrid: the round trip -------------------- *)
\* The hand-off of InitHybrid for commands of any characters, with agents
\* that run what they accept.
InitRoundTrip ==
    /\ WORKER_SECRET = "s3"
    /\ clock = 0
    /\ \E req \in JobRequests :
          JOBS = <<StartedRecord(ClaimedRecord(job_data(HybridJob, req, Iso(0)), HybridWorkerId),
                                 HybridWorkerId)>>
    /\ sim = <<0>>
    /\ claiming = None
    /\ returned = <<1>>
    /\ resp = Response("claim", 200, "ClaimResponse", HybridJob)
    /\ queue_dir = <<>>
    /\ results_dir = <<>>
    /\ agents = [a \in Agents |-> AgentIdle]
    /\ \E c \in RoundTripCommands :
          hworker = [pc |-> "start", job_id |-> HybridJob, command |-> c,
                     result |-> None, report |-> None]
    /\ \E s \in AgentSecrets, h \in HybridSecrets :
          config = [secret |-> s, hybrid_secret |-> h, dry_run |-> FALSE]
    /\ ran = <<>>
    /\ published = <<>>

SpecRoundTrip == InitRoundTrip /\ [][NextHybrid]_vars

\* a client cancels the job while the worker and the agents are at it
NextHybridCancel ==
    \/ NextHybrid
    \/ cancel_job(HybridJob)

SpecHybridCancel == InitHybrid /\ [][NextHybridCancel]_vars

\* the steps of agent a
AgentNext(a) ==
    \/ agent_list(a) \/ agent_claim(a) \/ agent_read(a)
    \/ agent_run(a) \/ agent_publish(a) \/ agent_remove(a)

\* the hand-offs of InitHybrid of a command with a quoted word: agents that
\* validate no secret (running or in a dry run), and agents with a secret
\* that the worker writes or does not write
InitAgents ==
    /\ InitHybrid
    /\ hworker.command = <<"echo", "a b">>
    /\ config \in
          { [secret |-> None, hybrid_secret |-> None, dry_run |-> FALSE],
            [secret |-> None, hybrid_secret |-> None, dry_run |-> TRUE],
            [secret |-> Some("tok"), hybrid_secret |-> None, dry_run |-> FALSE],
            [secret |-> Some("tok"), hybrid_secret |-> Some("tok"), dry_run |-> FALSE] }

\* the agent processes keep running: process_single waits for nothing but
\* run_job, whose communicate() calls have timeouts (agent.py lines 223-230)
SpecHybridAgentFair ==
    InitAgents /\ [][NextHybrid]_vars /\ \A a \in Agents : WF_vars(AgentNext(a))

(* ---------------------------- properties ------------------------------- *)
Assigned(j, w) == JOBS[j].worker_id = Some(w)

\* the PENDING jobs a claim with this preference may take
Eligible(runtime_pref) ==
    {j \in JobIds : /\ JOBS[j].state = PENDING
                    /\ Truthy(runtime_pref) => JOBS[j].runtime = runtime_pref[1]}

C1_Answer ==
    /\ (claiming = None /\ claiming' # None) =>
          /\ claiming'[1].job_id \in Eligible(None)
          /\ JOBS'[claiming'[1].job_id].state = CLAIMED
          /\ JOBS'[claiming'[1].job_id].worker_id = Some(claiming'[1].worker_id)
    /\ (claiming = None /\ Eligible(None) # {}) =>
          \A w \in WorkerIds :
              worker_claim(w, None, Some(WORKER_SECRET)) =>
                  claiming' # None /\ claiming'[1].worker_id = w
    /\ (claiming # None /\ claiming' = None) =>
          resp' = Response("claim", 200, "ClaimResponse", claiming[1].job_id)

\* C1: at most one claim.  No job id is carried by more than one claim
\* response.  A claim call takes a job only if the job is PENDING, and a call
\* without preference takes a job for its caller whenever one is PENDING: of
\* N claim calls against one PENDING job one receives it, the others "no job".
C1_AtMostOneClaim ==
    /\ [](\A j \in JobIds : returned[j] <= 1)
    /\ [][C1_Answer]_vars

\* a job was handed to a worker, and a later claim call was answered "no job"
C1_Witness ==
    /\ resp = Response("claim", 200, "None", 0)
    /\ \E j \in JobIds : returned[j] = 1 /\ JOBS[j].state = RUNNING

\* C2: terminal lock-out.  A complete call from the assigned worker (here one
\* with a non-empty id) on a job in SUCCESS leaves the job's state and result
\* as they were.
C2_TerminalLockOut ==
    [][\A j \in JobIds, w \in WorkerIds \ {""}, r \in CompleteRequests, s \in Secrets :
          (JOBS[j].state = SUCCESS /\ Assigned(j, w) /\ complete_job(j, w, r, s)) =>
              /\ JOBS'[j].state = JOBS[j].state
              /\ JOBS'[j].result = JOBS[j].result]_vars

\* C3: cancel before complete.  A cancel of a RUNNING job moves it to
\* CANCELED, and a complete call from the assigned worker (here one with a
\* non-empty id) on a job that was started and is CANCELED leaves it CANCELED.
C3_CancelBeforeComplete ==
    [][\A j \in JobIds :
          /\ (JOBS[j].state = RUNNING /\ cancel_job(j)) => JOBS'[j].state = CANCELED
          /\ \A w \in WorkerIds \ {""}, r \in CompleteRequests, s \in Secrets :
                (/\ JOBS[j].state = CANCELED
                 /\ JOBS[j].started_at # None
                 /\ Assigned(j, w)
                 /\ complete_job(j, w, r, s)) => JOBS'[j].state = CANCELED]_vars

\* the job's result is the one the simulated runner writes
BySimulation(j) ==
    /\ JOBS[j].result # None
    /\ JOBS[j].result[1].message \in {"Simulated success", "Simulated failure"}

\* C4: first to finish wins.  Once the completion report of the worker that
\* claimed a job has brought it to SUCCESS or FAILED, a later step of the
\* simulated runner leaves the job's state and result as they were; once the
\* simulated runner has, a later complete call of that worker does.
C4_FirstTerminalWins ==
    [][\A j \in JobIds :
          /\ (/\ JOBS[j].state \in {SUCCESS, FAILED}
              /\ ~BySimulation(j)
              /\ Truthy(JOBS[j].worker_id)
              /\ simulate_start(j) \/ simulate_step(j) \/ simulate_finish(j)) =>
                 /\ JOBS'[j].state = JOBS[j].state
                 /\ JOBS'[j].result = JOBS[j].result
          /\ \A w \in WorkerIds \ {""}, r \in CompleteRequests, s \in Secrets :
                (/\ JOBS[j].state \in {SUCCESS, FAILED}
                 /\ BySimulation(j)
                 /\ Assigned(j, w)
                 /\ complete_job(j, w, r, s)) =>
                    /\ JOBS'[j].state = JOBS[j].state
                    /\ JOBS'[j].result = JOBS[j].result]_vars

\* the edges of the lifecycle graph, with cancel from every non-terminal state
Edges ==
    {<<PENDING, CLAIMED>>, <<CLAIMED, RUNNING>>,
     <<RUNNING, SUCCESS>>, <<RUNNING, FAILED>>, <<RUNNING, CANCELED>>,
     <<PENDING, CANCELED>>, <<CLAIMED, CANCELED>>}

\* C5: every change of a job's state follows an edge of the lifecycle graph;
\* in particular a job in SUCCESS, FAILED or CANCELED never changes state.
C5_LifecycleGraph ==
    [][\A j \in JobIds :
          JOBS'[j].state # JOBS[j].state =>
              <<JOBS[j].state, JOBS'[j].state>> \in Edges]_vars

\* C6: worker isolation.  An append or complete call for a job that has been
\* claimed, carrying a worker id other than the one the job was claimed with,
\* is answered 403 "worker_id mismatch for job" and leaves the record as it was.
C6_WorkerIsolation ==
    [][\A j \in JobIds, w \in WorkerIds :
          (JOBS[j].worker_id # None /\ ~Assigned(j, w)) =>
              /\ \A l \in LineLists :
                    append_job_logs(j, w, l, Some(WORKER_SECRET)) =>
                        /\ resp' = Response("append", 403, "worker_id mismatch for job", 0)
                        /\ JOBS'[j] = JOBS[j]
              /\ \A r \in CompleteRequests :
                    complete_job(j, w, r, Some(WORKER_SECRET)) =>
                        /\ resp' = Response("complete", 403, "worker_id mismatch for job", 0)
                        /\ JOBS'[j] = JOBS[j]]_vars

\* the job the claim takes is eligible and no eligible job was created before
\* it, nor at the same time and inserted before it
IsOldest(j, runtime_pref) ==
    /\ j \in Eligible(runtime_pref)
    /\ \A k \in Eligible(runtime_pref) :
          LET tj == fromisoformat(JOBS[j].created_at)
              tk == fromisoformat(JOBS[k].created_at)
          IN  tj < tk \/ (tj = tk /\ j <= k)

\* C7: ordering.  A claim takes, among the PENDING jobs eligible for it, the one
\* with the earliest creation time, and among several with the earliest
\* creation time the one inserted first.
C7_Ordering ==
    [][(claiming = None /\ claiming' # None) =>
          \A w \in WorkerIds, p \in RuntimePrefs :
              worker_claim(w, p, Some(WORKER_SECRET)) =>
                  IsOldest(claiming'[1].job_id, p)]_vars

\* a claim took a job that is not the first of the store, while a job with the
\* same creation time and one created later were PENDING
C7_Witness ==
    /\ claiming # None
    /\ claiming[1].job_id > 1
    /\ \E k, l \in JobIds :
          /\ JOBS[k].state = PENDING /\ JOBS[l].state = PENDING
          /\ JOBS[k].created_at = JOBS[claiming[1].job_id].created_at
          /\ k > claiming[1].job_id
          /\ JOBS[l].created_at # JOBS[k].created_at

\* C8: a job's worker_id, once set, is never changed and never cleared.
C8_WorkerIdStable ==
    [][\A j \in JobIds :
          JOBS[j].worker_id # None => JOBS'[j].worker_id = JOBS[j].worker_id]_vars

\* a claimed job went on to a completion report and a finished simulated run
C8_Witness ==
    \E j \in JobIds :
        /\ JOBS[j].worker_id # None
        /\ sim[j] = SimDone
        /\ resp.op = "complete" /\ resp.code = 200

\* C9: claimed_at, started_at and finished_at are each written at most once: a
\* timestamp that is set is not assigned again (stated for the jobs a worker
\* with a non-empty id has claimed).
C9_TimestampsWriteOnce ==
    [][\A j \in JobIds :
          Truthy(JOBS[j].worker_id) =>
          /\ JOBS[j].claimed_at # None => JOBS'[j].claimed_at = JOBS[j].claimed_at
          /\ JOBS[j].started_at # None => JOBS'[j].started_at = JOBS[j].started_at
          /\ JOBS[j].finished_at # None => JOBS'[j].finished_at = JOBS[j].finished_at]_vars

\* C10: cancel moves a job in PENDING, CLAIMED or RUNNING to CANCELED and leaves
\* a job in SUCCESS, FAILED or CANCELED as it is; a second cancel right after
\* the first changes nothing.
C10_CancelIdempotent ==
    [][\A j \in JobIds :
          cancel_job(j) =>
              /\ JOBS[j].state \in Terminal => JOBS'[j] = JOBS[j]
              /\ JOBS[j].state \notin Terminal => JOBS'[j].state = CANCELED
              /\ CanceledRecord(JOBS[j])' = JOBS'[j]]_vars

\* a cancel was answered for a job that a completion report had finished
C10_Witness ==
    /\ resp = Response("cancel", 204, "None", 0)
    /\ \E j \in JobIds :
          /\ JOBS[j].state \in {SUCCESS, FAILED}
          /\ JOBS[j].logs # <<>>
          /\ JOBS[j].logs[Len(JOBS[j].logs)][1] = "COMPLETE"

\* C11: a claim call made when no PENDING job is eligible for it (PENDING and,
\* for a call with a non-empty preference, of that runtime) is answered 200
\* with no job, not an error, and leaves every record of the store as it was.
C11_NoJobNoChange ==
    [][\A w \in WorkerIds, p \in RuntimePrefs :
          (Eligible(p) = {} /\ worker_claim(w, p, Some(WORKER_SECRET))) =>
              /\ resp' = Response("claim", 200, "None", 0)
              /\ JOBS' = JOBS
              /\ claiming' = None]_vars

\* a claim call was answered "no job" while a job of another runtime was PENDING
C11_Witness ==
    /\ resp = Response("claim", 200, "None", 0)
    /\ \E j \in JobIds : JOBS[j].state = PENDING /\ JOBS[j].logs = <<>>

\* C12: a claim call that supplies a runtime preference takes only a PENDING
\* job whose runtime equals the preference, and is answered "no job" when no
\* PENDING job has that runtime; a call without a preference takes a PENDING
\* job whatever its runtime.
C12_RuntimePreference ==
    [][\A w \in WorkerIds, p \in RuntimePrefs :
          worker_claim(w, p, Some(WORKER_SECRET)) =>
              /\ (p # None /\ claiming' # None) =>
                    /\ JOBS[claiming'[1].job_id].state = PENDING
                    /\ JOBS[claiming'[1].job_id].runtime = p[1]
              /\ (p # None /\ \A j \in JobIds : ~(JOBS[j].state = PENDING /\ JOBS[j].runtime = p[1])) =>
                    /\ resp' = Response("claim", 200, "None", 0)
                    /\ JOBS' = JOBS
              /\ (p = None /\ \E j \in JobIds : JOBS[j].state = PENDING) =>
                    /\ claiming' # None
                    /\ JOBS[claiming'[1].job_id].state = PENDING]_vars

\* C13: a job's log is append-only.  After every step the log of a job is its
\* log before the step with zero or more entries added at the end, and an
\* accepted append call adds exactly its lines, in the order given.
C13_LogAppendOnly ==
    [][\A j \in JobIds :
          /\ Len(JOBS'[j].logs) >= Len(JOBS[j].logs)
          /\ SubSeq(JOBS'[j].logs, 1, Len(JOBS[j].logs)) = JOBS[j].logs
          /\ \A w \in WorkerIds, l \in LineLists :
                (/\ JOBS'[j].logs # JOBS[j].logs
                 /\ append_job_logs(j, w, l, Some(WORKER_SECRET))) =>
                    JOBS'[j].logs =
                        JOBS[j].logs \o [i \in 1..Len(l) |-> Entry("line", w, l[i], 0)]]_vars

\* the lines of an append call stand in the log in the order given, after the
\* entries that were there and before a later one
C13_Witness ==
    \E j \in JobIds :
        \E i \in 2..(Len(JOBS[j].logs) - 2) :
            /\ JOBS[j].logs[i] = Entry("line", "A", "l1", 0)
            /\ JOBS[j].logs[i + 1] = Entry("line", "A", "l2", 0)

\* C14: an append call for a job that has no assigned worker is accepted from
\* every worker id and changes the log only, so the job's worker_id is still
\* unset; and a job that is still PENDING after lines of one worker were
\* appended is given to another worker that claims it.
C14_AppendNoOwnership ==
    [][\A j \in JobIds :
          /\ \A w \in WorkerIds, l \in LineLists :
                (JOBS[j].worker_id = None /\ append_job_logs(j, w, l, Some(WORKER_SECRET))) =>
                    /\ resp' = Response("append", 204, "None", 0)
                    /\ JOBS'[j] = [JOBS[j] EXCEPT !.logs = AppendLines(@, w, l)]
                    /\ JOBS'[j].worker_id = None
          /\ \A w, v \in WorkerIds :
                (/\ w # v
                 /\ JOBS[j].state = PENDING
                 /\ \E i \in 1..Len(JOBS[j].logs) : JOBS[j].logs[i][1] = "line" /\ JOBS[j].logs[i][2] = w
                 /\ Oldest(None) = j
                 /\ worker_claim(v, None, Some(WORKER_SECRET))) =>
                    /\ claiming' = Some([job_id |-> j, worker_id |-> v])
                    /\ JOBS'[j].worker_id = Some(v)]_vars

\* a job that took lines from one worker while it had none was then handed
\* to another worker
C14_Witness ==
    \E j \in JobIds :
        /\ JOBS[j].logs # <<>>
        /\ JOBS[j].logs[1] = Entry("line", "", "l1", 0)
        /\ JOBS[j].worker_id = Some("A")
        /\ returned[j] = 1

InvalidSecret(op) == Response(op, 403, "invalid worker secret", 0)

\* C15: the shared secret of the worker endpoints.  With no secret configured
\* no claim, append or complete call is answered "invalid worker secret",
\* whatever header it carries.  With a secret configured, a call whose header
\* is missing or differs is answered 403 "invalid worker secret", for a job
\* id of the store or not, and leaves every record as it was; a rejected claim
\* call takes no job.
C15_SecretValidation ==
    [][\A s \in Secrets, w \in WorkerIds :
          /\ \A p \in RuntimePrefs :
                worker_claim(w, p, s) =>
                    IF WORKER_SECRET = "" \/ s = Some(WORKER_SECRET)
                    THEN claiming' # None \/ resp' = Response("claim", 200, "None", 0)
                    ELSE resp' = InvalidSecret("claim") /\ JOBS' = JOBS /\ claiming' = None
          /\ \A j \in AllJobIds, l \in LineLists :
                append_job_logs(j, w, l, s) =>
                    IF WORKER_SECRET = "" \/ s = Some(WORKER_SECRET)
                    THEN resp' # InvalidSecret("append")
                    ELSE resp' = InvalidSecret("append") /\ JOBS' = JOBS
          /\ \A j \in AllJobIds, r \in CompleteRequests :
                complete_job(j, w, r, s) =>
                    IF WORKER_SECRET = "" \/ s = Some(WORKER_SECRET)
                    THEN resp' # InvalidSecret("complete")
                    ELSE resp' = InvalidSecret("complete") /\ JOBS' = JOBS]_vars

\* with a secret configured, a claim call was rejected while a job was PENDING
C15_Witness ==
    /\ WORKER_SECRET # ""
    /\ resp = InvalidSecret("claim")
    /\ \E j \in JobIds : JOBS[j].state = PENDING

\* with no secret configured, a job was claimed and completed
C15_WitnessUnset ==
    /\ WORKER_SECRET = ""
    /\ resp = Response("complete", 200, "job_id, state", 1)
    /\ returned[1] = 1

NotFound(op) == Response(op, 404, "job not found", 0)

\* C16: get, cancel, get-logs, append and complete (the two with the valid
\* secret) for a job id that is not in the store are answered 404 "job not
\* found" and leave the store as it was: no record is created or changed.
C16_NotFound ==
    [][\A j \in LookupIds \ JobIds :
          /\ get_job(j) => resp' = NotFound("get") /\ JOBS' = JOBS
          /\ cancel_job(j) => resp' = NotFound("cancel") /\ JOBS' = JOBS
          /\ \A tail \in Tails :
                get_job_logs(j, tail) => resp' = NotFound("logs") /\ JOBS' = JOBS
          /\ \A w \in WorkerIds, l \in LineLists :
                append_job_logs(j, w, l, Some(WORKER_SECRET)) =>
                    resp' = NotFound("append") /\ JOBS' = JOBS
          /\ \A w \in WorkerIds, r \in CompleteRequests :
                complete_job(j, w, r, Some(WORKER_SECRET)) =>
                    resp' = NotFound("complete") /\ JOBS' = JOBS]_vars

\* a get for an id the store does not have was answered while the store had
\* a record
C16_Witness ==
    /\ resp = NotFound("get")
    /\ JOBS # <<>>

\* C17: a submission adds exactly one record, under a job id no record has,
\* in state PENDING with no worker, an empty log, no result and no timestamp
\* but created_at, and leaves the other records as they were; no step changes
\* the job_id of a record or removes a record, so no two records ever share a
\* job id and the set of stored job ids only grows.
C17_Submission ==
    /\ [](\A i, j \in JobIds : JOBS[i].job_id = JOBS[j].job_id => i = j)
    /\ [][/\ Len(JOBS') >= Len(JOBS)
          /\ \A j \in JobIds : JOBS'[j].job_id = JOBS[j].job_id
          /\ \A req \in JobRequests :
                enqueue_next(req) =>
                    LET new == JOBS'[Len(JOBS')]
                    IN  /\ Len(JOBS') = Len(JOBS) + 1
                        /\ SubSeq(JOBS', 1, Len(JOBS)) = JOBS
                        /\ new.job_id \notin {JOBS[j].job_id : j \in JobIds}
                        /\ new.state = PENDING
                        /\ new.worker_id = None
                        /\ new.logs = <<>>
                        /\ new.result = None
                        /\ new.created_at = _now
                        /\ new.claimed_at = None
                        /\ new.started_at = None
                        /\ new.finished_at = None
                        /\ new.ref = req.ref /\ new.runtime = req.runtime
                        /\ resp' = Response("enqueue", 201, "JobSummary", new.job_id)]_vars

\* a second submission was made after the first job had been started
C17_Witness ==
    /\ Len(JOBS) = 2
    /\ JOBS[1].state = RUNNING
    /\ JOBS[2].state = PENDING /\ JOBS[2].logs = <<>>
    /\ resp = Response("enqueue", 201, "JobSummary", 2)

\* the agents that hold a claimed file of job j
Holders(j) ==
    {a \in Agents : agents[a].pc \in {"read", "run", "publish", "remove"} /\ agents[a].job_id = j}

\* C18: hybrid at-most-one execution.  Of the agents that have listed the
\* same command file one renames it; for every other the rename fails and it
\* goes on to its next name without reading, running or publishing anything.
\* At no time do two agents hold the file of one job, and over all agents and
\* poll cycles the command of a job is run at most once and at most one
\* result is written for it.
C18_AtMostOneExecution ==
    /\ [](/\ Cardinality(Holders(HybridJob)) <= 1
          /\ Cardinality({i \in DOMAIN ran : ran[i].job_id = HybridJob}) <= 1
          /\ Cardinality({i \in DOMAIN published : published[i].job_id = HybridJob}) <= 1)
    /\ [][\A a \in Agents :
             (agent_claim(a) /\ agents[a].jobs # <<>>) =>
                 IF Head(agents[a].jobs) \in DOMAIN queue_dir
                 THEN /\ Holders(HybridJob) = {}
                      /\ Holders(HybridJob)' = {a}
                      /\ Head(agents[a].jobs) \notin DOMAIN queue_dir'
                      /\ RunningName(Head(agents[a].jobs)) \in DOMAIN queue_dir'
                 ELSE /\ agents'[a].pc = "claim"
                      /\ agents'[a].jobs = Tail(agents[a].jobs)
                      /\ UNCHANGED <<queue_dir, results_dir, ran, published>>]_vars

\* both agents had listed the command file; one claimed it, ran the command
\* and published the result, the other found it gone and went on
C18_Witness ==
    /\ Len(ran) = 1
    /\ Len(published) = 1
    /\ agents[ran[1].agent].pc = "remove"
    /\ \E b \in Agents \ {ran[1].agent} :
          agents[b].pc = "claim" /\ agents[b].jobs = <<>>

\* the SECRET_TOKEN a file carries: the value of its last such line, if any
TokenOf(contents) ==
    LET T == {i \in 1..Len(contents) :
                 contents[i].kind = "header" /\ contents[i].key = "SECRET_TOKEN"}
    IN  IF T = {} THEN None ELSE Some(contents[CHOOSE i \in T : \A k \in T : k <= i].val[1])

SecretRejected == Result(1, "", "SECRET_TOKEN missing or invalid")

\* an agent that has a secret reads a file whose token is missing or differs
ReadsUnauthorized(a) ==
    /\ config.secret # None
    /\ agents[a].pc = "read"
    /\ TokenOf(queue_dir[agents[a].claimed]) # config.secret
    /\ agent_read(a)

LacksMagic(contents) ==
    \A i \in 1..Len(contents) :
        contents[i].kind = "magic" => \E k \in 1..(i - 1) : contents[k].kind # "blank"

\* the command payload has a quotation that is not closed
Undecodable(contents) ==
    \E i \in 1..Len(contents) : contents[i].kind = "text" /\ contents[i].open

\* an agent is about to publish the result for a file it could not parse
Unparsed ==
    \E a \in Agents :
        /\ agents[a].pc = "publish"
        /\ agents[a].result[1].exitCode = -1

\* C20: a claimed command file without the magic header or with a command
\* payload that cannot be decoded is not run: the agent goes on to publish a
\* result with an exit code other than 0.  The worker that reads a result
\* with such an exit code reports the job complete with success false, which
\* leaves the job FAILED with that exit code; and whenever an agent has such
\* a file, the job does become FAILED.
C20_MalformedFails ==
    /\ [][/\ \A a \in Agents :
                (/\ agents[a].pc = "read"
                 /\ LacksMagic(queue_dir[agents[a].claimed])
                        \/ Undecodable(queue_dir[agents[a].claimed])
                 /\ agent_read(a)) =>
                    /\ agents'[a].pc = "publish"
                    /\ agents'[a].result # None
                    /\ agents'[a].result[1].exitCode # 0
          /\ (/\ hworker.pc = "complete"
              /\ hworker.result # None
              /\ hworker.result[1].exitCode # 0
              /\ hw_complete) =>
                 /\ resp' = Response("complete", 200, "job_id, state", HybridJob)
                 /\ JOBS'[HybridJob].state = FAILED
                 /\ JOBS'[HybridJob].result[1].exit_code = hworker.result[1].exitCode]_vars
    /\ (Unparsed ~> JOBS[HybridJob].state = FAILED)

\* the worker has read the result of a payload that could not be decoded and
\* reported the job, which is FAILED; no command was run
C20_Witness ==
    /\ hworker.pc = "done"
    /\ hworker.result =
          Some(Result(-1, "", "command-parse-error: failed to parse command: No closing quotation"))
    /\ JOBS[HybridJob].state = FAILED
    /\ JOBS[HybridJob].result[1].exit_code = -1
    /\ ran = <<>>

\* agent a has published a result for the job it holds
PublishedBy(a) ==
    \E i \in DOMAIN published :
        published[i].agent = a /\ published[i].job_id = HybridJob

CmdFileWhole == CmdFileText(hworker.command, config.hybrid_secret)

\* C22: the worker publishes a command file atomically: whenever an agent
\* lists command files, claims one or reads the one it claimed, every
\* command file it lists, the file it claims and the file it reads hold the
\* whole text the worker writes, never nothing and never a part of it.
C22_AtomicCommandFile ==
    [][\A a \in Agents :
          /\ agent_list(a) =>
                \A i \in DOMAIN agents'[a].jobs : queue_dir[agents'[a].jobs[i]] = CmdFileWhole
          /\ (agent_claim(a) /\ agents'[a].pc = "read") =>
                queue_dir'[agents'[a].claimed] = CmdFileWhole
          /\ agent_read(a) =>
                queue_dir[agents[a].claimed] = CmdFileWhole]_vars

\* the results agents have handed to complete_job for job j
ResultsFor(j) ==
    {published[i].result : i \in {k \in DOMAIN published : published[k].job_id = j}}

\* C23: the agent publishes a result file atomically, so a result file the
\* worker can see always holds the whole result an agent made for that job,
\* and the worker's poll reads exactly such a result; the poll that reads
\* the result file also deletes it.
C23_AtomicResultFile ==
    /\ [](\A j \in DOMAIN results_dir : results_dir[j] \in ResultsFor(j))
    /\ [][hw_read_result =>
             /\ hworker'.result # None
             /\ hworker'.result[1] \in ResultsFor(hworker.job_id)
             /\ hworker.job_id \notin DOMAIN results_dir']_vars

\* the worker has read the result of a run, whole, and the file is gone
C23_Witness ==
    /\ hworker.pc = "stdout"
    /\ Len(ran) = 1
    /\ hworker.result = Some(Result(2, "", "e"))
    /\ results_dir = <<>>

\* the report of a wait that timed out
TimeoutReport ==
    [success |-> FALSE, exit_code |-> 124,
     message |-> Some("[hybrid] timed out waiting for result"), result |-> None]

\* C24: the wait for the result file has the deadline timeout_seconds plus
\* the grace period of 5 seconds after its start; a result file is read only
\* before the deadline; a wait that ends without a result reports the job
\* with success false and exit code 124, which leaves it FAILED with that
\* exit code; and every wait ends, after which run_command_and_stream returns.
C24_TimeoutSynthesis ==
    /\ [][/\ hwt_deadline =>
                hworker'.deadline = Some(hworker.now + hworker.timeout_seconds + Grace)
          /\ hwt_read_result => hworker.now < hworker.deadline[1]
          /\ hwt_timeout =>
                /\ hworker.now >= hworker.deadline[1]
                /\ hworker'.report = Some(TimeoutReport)
                /\ hworker'.pc = "complete"
          /\ (hw_complete /\ hworker.result = None) =>
                /\ JOBS'[HybridJob].state = FAILED
                /\ JOBS'[HybridJob].result[1].exit_code = 124]_vars
    /\ ((hworker.pc = "poll") ~> (hworker.pc = "done"))
    /\ ((hworker.pc = "poll" /\ hworker.deadline # None /\ hworker.now >= hworker.deadline[1])
            ~> (hworker.pc = "done" /\ hworker.report = Some(TimeoutReport)))

\* no agent took the command file; the deadline passed, the worker reported
\* the timeout and the job is FAILED with exit code 124
C24_Witness ==
    /\ hworker.pc = "done"
    /\ hworker.result = None
    /\ hworker.now >= hworker.deadline[1]
    /\ published = <<>>
    /\ JOBS[HybridJob].state = FAILED
    /\ JOBS[HybridJob].result[1].exit_code = 124

\* the child process is still running after timeout_seconds
OverTime == hworker.proc = "running" /\ hworker.now >= hworker.timeout_seconds

\* C25: a command the worker runs itself that is still running after
\* timeout_seconds is killed and the job gets a completion report, so a
\* job whose process never exits is still reported.
C25_LocalTimeout ==
    OverTime ~> (hworker.proc # "running" /\ hworker.pc \in {"complete", "done"})

\* C26: a cancel raised while the hybrid execution is in flight ends it:
\* once the job is CANCELED the worker's wait reads no result and reports
\* none, and whatever arrives afterwards may add log entries but leaves the
\* job CANCELED, with the result and finished_at it had.
C26_CancelDuringHybrid ==
    [][JOBS[HybridJob].state = CANCELED =>
          /\ JOBS'[HybridJob].state = CANCELED
          /\ JOBS'[HybridJob].result = JOBS[HybridJob].result
          /\ JOBS'[HybridJob].finished_at = JOBS[HybridJob].finished_at
          /\ ~hw_read_result
          /\ ~hw_complete]_vars

\* C27: a worker that has both hybrid directories never starts the command
\* as a child process of its own: it has no child process at any time, and
\* when it reports the job it either reports what an agent answered to the
\* command file or reports a failure (the command file could not be
\* written, or no result came in time).
C27_NoLocalExecution ==
    [](config.hybrid_queue # None /\ config.hybrid_results # None =>
          /\ hworker.proc = "none"
          /\ (hworker.pc \in {"complete", "done"} =>
                 \/ /\ hworker.result # None
                    /\ hworker.result[1] \in ResultsFor(HybridJob)
                 \/ ~hworker.report[1].success))

\* a worker with both directories could not write the command file: it
\* reported the job failed with exit code 1 and nothing was run anywhere
C27_Witness ==
    /\ HybridEnabled(config)
    /\ hworker.pc = "done"
    /\ hworker.report[1].exit_code = 1
    /\ hworker.result = None
    /\ queue_dir = <<>>
    /\ ran = <<>>

\* the last n entries of a log, all of them when it has fewer
LastEntries(logs, n) ==
    SubSeq(logs, Len(logs) - (IF n < Len(logs) THEN n ELSE Len(logs)) + 1, Len(logs))

\* C28: the logs lookup with tail n answers with exactly the last n entries
\* of the job's log, in log order: all of them when the log has fewer than
\* n, none when n is 0; the job lookup answers with at most the last 1000
\* entries; neither changes the stored log.
C28_Tail ==
    [][\A j \in JobIds :
          /\ \A tail \in Tails :
                get_job_logs(j, tail) =>
                    /\ resp'.data = LastEntries(JOBS[j].logs, tail)
                    /\ JOBS' = JOBS
          /\ get_job(j) =>
                /\ resp'.data.logs = LastEntries(JOBS[j].logs, LogCap)
                /\ JOBS' = JOBS]_vars

\* the agents validate no secret or the one the worker writes
SecretsMatch == config.secret = None \/ config.secret = config.hybrid_secret

\* C29: for every command of a job, an agent that reads the command file
\* the worker wrote (the whole file, secrets matching) decodes an argument
\* vector identical to the job's command and runs it, and the result it
\* publishes is the exit code, stdout and stderr of that run.
C29_RoundTrip ==
    [][\A a \in Agents :
          /\ (/\ SecretsMatch
              /\ agents[a].pc = "read"
              /\ queue_dir[agents[a].claimed] = CmdFileWhole
              /\ agent_read(a)) =>
                 /\ agents'[a].pc = "run"
                 /\ agents'[a].argv = hworker.command
          /\ agent_run(a) =>
                /\ ran'[Len(ran')].argv = agents[a].argv
                /\ agents'[a].result \in {Some(r) : r \in RunOutcomes}
          /\ (agent_publish(a) /\ \E i \in DOMAIN ran : ran[i].agent = a) =>
                results_dir'[HybridJob] = agents[a].result[1]]_vars

\* C30: an append call that is accepted changes only the log of its job,
\* whatever the state of the job (SUCCESS, FAILED and CANCELED included):
\* the lines are added at the end, and state, result, worker_id, claimed_at,
\* started_at, finished_at and every other field stay as they were, as does
\* every other job.
C30_AppendOnlyLog ==
    [][\A j \in JobIds, w \in WorkerIds, l \in LineLists :
          (append_job_logs(j, w, l, Some(WORKER_SECRET)) /\ resp'.code = 204) =>
              /\ JOBS'[j].logs = JOBS[j].logs \o [i \in 1..Len(l) |-> Entry("line", w, l[i], 0)]
              /\ JOBS' = Put(j, [JOBS[j] EXCEPT !.logs = JOBS'[j].logs])]_vars

\* lines were appended to a job that had ended with SUCCESS
C30_Witness ==
    /\ resp = Response("append", 204, "None", 0)
    /\ \E j \in JobIds :
          /\ JOBS[j].state = SUCCESS
          /\ JOBS[j].finished_at # None
          /\ JOBS[j].logs[Len(JOBS[j].logs)] = Entry("line", "A", "l2", 0)
          /\ \E i \in 1..(Len(JOBS[j].logs) - 2) : JOBS[j].logs[i] = Entry("SUCCESS: simulated run complete", "", "", 0)

\* C31: the source accepts a complete call on a job that was never claimed:
\* on a PENDING job with no assigned worker, a complete call from any worker
\* id is answered 200 and moves the job straight to SUCCESS (success true)
\* or FAILED (success false) with finished_at and result set, and the job's
\* worker_id stays unset.
C31_CompleteUnclaimed ==
    [][\A j \in JobIds, w \in WorkerIds, r \in CompleteRequests :
          (/\ JOBS[j].state = PENDING
           /\ JOBS[j].worker_id = None
           /\ complete_job(j, w, r, Some(WORKER_SECRET))) =>
              /\ resp' = Response("complete", 200, "job_id, state", j)
              /\ JOBS'[j].state = IF r.success THEN SUCCESS ELSE FAILED
              /\ JOBS'[j].finished_at # None
              /\ JOBS'[j].result # None
              /\ JOBS'[j].result[1].exit_code = r.exit_code
              /\ JOBS'[j].worker_id = None
              /\ JOBS'[j].claimed_at = None
              /\ JOBS'[j].started_at = None]_vars

\* a job that no worker ever claimed is FAILED by a complete call
C31_Witness ==
    /\ resp = Response("complete", 200, "job_id, state", 1)
    /\ JOBS[1].state = FAILED
    /\ JOBS[1].worker_id = None
    /\ JOBS[1].claimed_at = None
    /\ JOBS[1].result # None
    /\ JOBS[1].finished_at # None

\* the files of the queue directory that belong to job j
FilesOf(j) == {n \in DOMAIN queue_dir : n[1] = j}

\* C32: a claimed job whose command is empty is failed by the worker at
\* once, in hybrid and in local mode: the first step of the worker for it
\* prepares the report success=false, exit code 1, "empty command" and
\* touches no file and starts no process; while the worker holds the job
\* there is no command file of it and no child process; and once the
\* report is delivered the job is FAILED with exit code 1.
C32_EmptyCommand ==
    /\ [][(hworker.pc = "start" /\ hworker.command = <<>> /\ hworker' # hworker) =>
             /\ hworker'.pc = "complete"
             /\ hworker'.report = LwReport(1, "empty command")
             /\ UNCHANGED <<queue_dir, results_dir, JOBS>>]_vars
    /\ [](hworker.command = <<>> =>
             /\ FilesOf(hworker.job_id) = {}
             /\ hworker.proc = "none"
             /\ hworker.pc \in {"start", "complete", "done"}
             /\ (hworker.pc = "done" =>
                    /\ JOBS[hworker.job_id].state = FAILED
                    /\ JOBS[hworker.job_id].result[1].exit_code = 1
                    /\ JOBS[hworker.job_id].result[1].message = "empty command"))

\* a hybrid worker has failed a job with an empty command without a hand-off
C32_Witness ==
    /\ hworker.command = <<>>
    /\ hworker.pc = "done"
    /\ HybridEnabled(config)
    /\ JOBS[hworker.job_id].state = FAILED
    /\ JOBS[hworker.job_id].result[1].exit_code = 1

\* the log entries of job j that append calls wrote
LinesOf(j) == SelectSeq(JOBS[j].logs, LAMBDA e : e[1] = "line")

\* C33: log streaming is fire-and-forget.  An append that fails (the request
\* does not arrive) or is rejected (the application no longer knows the
\* job) never aborts the job: run_command_and_stream returns only after a
\* complete_job call for the job, and a worker that keeps running, whose
\* child process ends, makes that call on every path, whatever happened to
\* its appends.
C33_FireAndForget ==
    /\ [][(hworker.pc # "done" /\ hworker'.pc = "done") =>
             /\ hworker.pc = "complete"
             /\ hworker'.sent = Append(hworker.sent, hworker.job_id)]_vars
    /\ (hworker.pc = "start") ~> (hworker.pc = "done" /\ hworker.sent = <<hworker.job_id>>)

\* every append of a hand-off that brought a result was lost, and the
\* completion report was sent and accepted
C33_Witness ==
    /\ hworker.pc = "done"
    /\ hworker.sent = <<1>>
    /\ hworker.result # None
    /\ JOBS # <<>>
    /\ LinesOf(1) = <<>>
    /\ JOBS[1].state \in {SUCCESS, FAILED}
    /\ JOBS[1].result[1].payload # None

Whole(job) ==
    /\ job.state \in Terminal <=> job.finished_at # None
    /\ job.state = CANCELED =>
          job.logs[Len(job.logs)] = Entry("CANCELED by request", "", "", 0)
    /\ job.state \in {SUCCESS, FAILED} =>
          /\ job.result # None
          /\ job.logs[Len(job.logs)][1] = "COMPLETE"
          /\ job.logs[Len(job.logs)][3] = (IF job.state = SUCCESS THEN "True" ELSE "False")
          /\ job.logs[Len(job.logs)][4] = job.result[1].exit_code

C36_ClaimReturnsRunning ==
    /\ [][\A w \in WorkerIds, p \in RuntimePrefs, s \in Secrets :
             (worker_claim(w, p, s) /\ claiming' # None) =>
                LET j == claiming'[1].job_id
                IN  /\ claiming'[1].worker_id = w
                    /\ JOBS[j].state = PENDING
                    /\ JOBS'[j].state = CLAIMED
                    /\ JOBS'[j].worker_id = Some(w)
                    /\ JOBS'[j].claimed_at # None
                    /\ JOBS'[j].started_at = None
                    /\ resp' = resp]_vars
    /\ [][worker_claim_start =>
             LET j == claiming[1].job_id
             IN  /\ JOBS[j].state = CLAIMED
                 /\ resp' = Response("claim", 200, "ClaimResponse", j)
                 /\ JOBS'[j].state = RUNNING
                 /\ JOBS'[j].worker_id = Some(claiming[1].worker_id)
                 /\ JOBS'[j].claimed_at # None
                 /\ JOBS'[j].started_at # None
                 /\ claiming' = None]_vars
    /\ [][(resp' # resp /\ resp'.op = "claim" /\ resp'.job # 0) => worker_claim_start]_vars

\* a claim request of worker A has returned job 1, which is RUNNING
C36_Witness ==
    /\ resp = Response("claim", 200, "ClaimResponse", 1)
    /\ claiming = None
    /\ returned[1] = 1
    /\ JOBS[1].state = RUNNING
    /\ JOBS[1].worker_id = Some("A")
    /\ JOBS[1].claimed_at # None
    /\ JOBS[1].started_at # None

\* C37: in every reachable state the fields of each record agree with its
\* state: result is set exactly when the state is SUCCESS or FAILED,
\* finished_at is set exactly when the state is terminal, and a PENDING job
\* has no worker_id and no claimed_at.
C37_FieldsAgree ==
    \A j \in JobIds :
        /\ JOBS[j].result # None <=> JOBS[j].state \in {SUCCESS, FAILED}
        /\ JOBS[j].finished_at # None <=> JOBS[j].state \in Terminal
        /\ JOBS[j].state = PENDING =>
              (JOBS[j].worker_id = None /\ JOBS[j].claimed_at = None)

\* C38: a job canceled before or during its simulated run stays CANCELED:
\* no step of the simulated runner changes the state of a job that is
\* CANCELED, also when the cancel came during the sleep after the last step.
C38_CanceledStaysCanceled ==
    [][\A j \in JobIds :
          (JOBS[j].state = CANCELED
             /\ (simulate_start(j) \/ simulate_step(j) \/ simulate_finish(j))) =>
                JOBS'[j].state = CANCELED]_vars

\* C39: the agent never starts executing a job's command after the worker
\* has reported that job complete: once the worker has given up waiting and
\* sent its completion, no agent claims the job's command file and no agent
\* runs its command.
C39_NoRunAfterReport ==
    [][\A a \in Agents :
          (hworker.pc = "done" /\ hworker.result = None) =>
             /\ ~(agent_claim(a) /\ agents'[a].pc = "read")
             /\ ~agent_run(a)]_vars

\* how many complete_job calls the worker has made for job j
SentFor(j) == Len(SelectSeq(hworker.sent, LAMBDA k : k = j))

=============================================================================
